---- MODULE Spec2Model ----
(***************************************************************************)
(* A model of the checkmate game-review application: the board timeline    *)
(* (src/src/lib/chess/board.ts) with its main line, hypothetical line,     *)
(* fork point and cursor; the interface that publishes the timeline to the *)
(* user interface (src/src/lib/chess/chess_interface.ts); and the game     *)
(* reviewer with its annotation store (src/src/lib/chess/game_review.ts)   *)
(* and its engine wrapper (src/unnamed/part_004).                          *)
(*                                                                         *)
(* The chess rules (chess.js) are an external capability.  They are        *)
(* abstracted to a one-piece game on a row of NumSquares squares: a        *)
(* position encoding ("FEN") is the number 2*square + sideToMove, a move   *)
(* is legal when it starts on the piece's square and ends on another one,  *)
(* and a move onto the last square is a promotion and needs the promotion  *)
(* piece.  The engine and the opening book are external too: the answers   *)
(* they give are chosen from small sets.  What the program does with the   *)
(* answers is translated from the source line by line.                     *)
(***************************************************************************)
EXTENDS Integers, Sequences, FiniteSets, TLC

\* Bounds of the model.
NumSquares == 3
MaxPgnMoves == 1
MaxHypothetical == 2

VARIABLES
    position,               \* BoardTimeline._position: [main, index]
    main,                   \* BoardTimeline._main: sequence of BoardState
    hypothetical,           \* BoardTimeline._hypothetical
    hypotheticalForksFrom,  \* BoardTimeline._hypotheticalForksFrom
    call,                   \* the last operation called, the cursor it was called at
                            \* and the length of the timeline the cursor was on
    ret,                    \* what the last operation returned (or that it threw)
    annotations,            \* ChessInterface._annotations
    matchMetadata,          \* ChessInterface._matchMetadata
    stores,                 \* ChessInterface.stores: the value each store holds
    reviewer,               \* the fields of a GameReviewer
    pass,                   \* the run of beginGameReview that passed the re-entry
                            \* checks: where it is and its local variables
    engine,                 \* the commands sent to the engine, in order
    modalManager,           \* the fields of the ModalManager and the values in
                            \* its stores
    reviews                 \* the GameReview components created so far: the
                            \* reviewer of each, its run and its interval

vars == <<position, main, hypothetical, hypotheticalForksFrom, call, ret,
          annotations, matchMetadata, stores, reviewer, pass, engine,
          modalManager, reviews>>

\* The variables of the timeline, of the interface above it, of the
\* reviewer, and of the application's modals.
timelineVars == <<position, main, hypothetical, hypotheticalForksFrom>>
interfaceVars == <<annotations, matchMetadata, stores>>
reviewVars == <<reviewer, pass, engine>>
appVars == <<modalManager, reviews>>

----------------------------------------------------------------------------
\* Values of the host language.

\* null (a rejected move, the move of an initial position).
Null == [null |-> TRUE]

\* undefined (an array read out of bounds, the result of a void method).
Undefined == [undefined |-> TRUE]

\* An exception that left the method.
Threw == [threw |-> TRUE]

\* array[i], 0-based; undefined when out of bounds.
At(array, i) == IF (i + 1) \in DOMAIN array THEN array[i + 1] ELSE Undefined

\* array.slice(0, n)
Slice(array, n) == SubSeq(array, 1, IF n < Len(array) THEN n ELSE Len(array))

----------------------------------------------------------------------------
\* The rules capability (chess.js), abstracted.

Squares == 0 .. (NumSquares - 1)

\* Promotion arguments: absent, or a queen.
Promotions == {"none", "q"}

\* The strings handed in as position encodings: 2*square + side to move.  The
\* encodings of the squares of the board are valid; the last two name a square
\* off the board and are not.
FenStrings == 0 .. (2 * NumSquares + 1)

FenSquare(fen) == fen \div 2

FenTurn(fen) == fen % 2

\* new Chess(fen) accepts fen (it throws otherwise).
ValidFEN(fen) == FenSquare(fen) \in Squares

INITIAL_BOARD_FEN == 0

IsPromotion(to) == to = NumSquares - 1

\* chess.move({from, to, promotion}) on the position fen: the move made, or
\* Null when chess.js throws (the move is illegal).
ChessMove(fen, from, to, promotion) ==
    IF /\ from = FenSquare(fen)
       /\ to \in Squares
       /\ to # from
       /\ (IsPromotion(to) => promotion = "q")
    THEN [from |-> from, to |-> to,
          promotion |-> IF IsPromotion(to) THEN "q" ELSE "none",
          after |-> 2 * to + (1 - FenTurn(fen))]
    ELSE Null

----------------------------------------------------------------------------
\* BoardState

\* new BoardState(boardFEN, move)
BoardState(boardFEN, move) == [fen |-> boardFEN, move |-> move]

\* BoardState.fromFEN(fen)
fromFEN(fen) == BoardState(fen, Null)

\* A variant of push that hands back the state itself when the move is rejected.
pushReturningSelf(state, fromIndex, toIndex, promotion) ==
    LET move == ChessMove(state.fen, fromIndex, toIndex, promotion)
    IN  IF move = Null THEN state ELSE BoardState(move.after, move)

\* state.push(fromIndex, toIndex, promotion): the next state, or Null.
push(state, fromIndex, toIndex, promotion) ==
    LET move == ChessMove(state.fen, fromIndex, toIndex, promotion)
    IN  IF move = Null THEN Null ELSE BoardState(move.after, move)

\* positionsEqual(a, b)
positionsEqual(a, b) == a.main = b.main /\ a.index = b.index

----------------------------------------------------------------------------
\* BoardTimeline, as functions of the timeline object tl.  Each returns the
\* timeline after the call and the value returned.

\* The timeline object made of the four private fields.
Timeline == [position |-> position, main |-> main, hypothetical |-> hypothetical,
             hypotheticalForksFrom |-> hypotheticalForksFrom]

\* new BoardTimeline()
constructor ==
    [position |-> [main |-> FALSE, index |-> 0],
     main |-> <<>>,
     hypothetical |-> <<fromFEN(INITIAL_BOARD_FEN)>>,
     hypotheticalForksFrom |-> 0]

getPosition(tl) == tl.position

getBoardState(tl) ==
    IF tl.position.main
    THEN At(tl.main, tl.position.index)
    ELSE At(tl.hypothetical, tl.position.index)

\* The notation texts handed to loadPGN: a header and the moves in SAN.  In the
\* one-piece game the SAN of a move is its destination square (the promotion
\* piece is part of the SAN of a promotion).
PgnHeaders == {"game1", "game2"}

RECURSIVE SeqsUpTo(_, _)
SeqsUpTo(S, n) ==
    IF n = 0 THEN {<<>>}
    ELSE LET shorter == SeqsUpTo(S, n - 1)
         IN  shorter \cup {Append(q, x) : q \in shorter, x \in S}

PgnTexts == [header : PgnHeaders, moves : SeqsUpTo(Squares, MaxPgnMoves)]

\* chess.loadPgn(pgn) followed by chess.history({verbose: true}): the moves
\* played from the position fen; ok is FALSE when loadPgn throws (a move of
\* the text cannot be played).
RECURSIVE PgnHistory(_, _)
PgnHistory(fen, sans) ==
    IF sans = <<>> THEN [ok |-> TRUE, moves |-> <<>>]
    ELSE LET move == ChessMove(fen, FenSquare(fen), Head(sans), "q")
         IN  IF move = Null THEN [ok |-> FALSE, moves |-> <<>>]
             ELSE LET rest == PgnHistory(move.after, Tail(sans))
                  IN  [ok |-> rest.ok, moves |-> <<move>> \o rest.moves]

\* {} : an object without properties.
EmptyObject == [empty |-> TRUE]

\* BoardState.clone(): a new state with the same fen and a spread copy of
\* the move; spreading null gives {}.
clone(state) ==
    BoardState(state.fen, IF state.move = Null THEN EmptyObject ELSE state.move)

\* A variant of getMainTimeline that hands out the array held in _main.
getMainTimelineReturningMain(tl) == [array |-> tl.main, sameArray |-> TRUE]

\* getMainTimeline(): map makes a new array, holding a clone of each state.
\* sameArray says whether the array returned is the array object held in
\* _main, so that a write to it is a write to _main.
getMainTimeline(tl) ==
    [array |-> [i \in 1 .. Len(tl.main) |-> clone(tl.main[i])],
     sameArray |-> FALSE]

\* getHypotheticalTimeline()
getHypotheticalTimeline(tl) ==
    [array |-> [i \in 1 .. Len(tl.hypothetical) |-> clone(tl.hypothetical[i])],
     sameArray |-> FALSE]

\* Writes a caller can make to an array it holds.
ArrayMutations == {"pop", "fill"}

\* The array after array.pop(), or after array.fill(x).
Mutated(array, mutation, x) ==
    IF mutation = "pop"
    THEN SubSeq(array, 1, IF Len(array) > 0 THEN Len(array) - 1 ELSE 0)
    ELSE [i \in 1 .. Len(array) |-> x]

\* loadFEN(fen).  BoardState.fromFEN runs new Chess(fen), which throws on an
\* invalid encoding: by then the first two assignments have been made, the
\* last two have not.
loadFEN(tl, fen) ==
    LET t1 == [tl EXCEPT !.position = [main |-> FALSE, index |-> 0]]
        t2 == [t1 EXCEPT !.main = <<>>]
    IN  IF ~ValidFEN(fen)
        THEN [tl |-> t2, ret |-> Threw]
        ELSE [tl |-> [t2 EXCEPT !.hypothetical = <<fromFEN(fen)>>,
                                !.hypotheticalForksFrom = 0],
              ret |-> Undefined]

\* The notation text pgn can be parsed: every move of it is legal in turn
\* from the starting position.
Parses(pgn) == PgnHistory(INITIAL_BOARD_FEN, pgn.moves).ok

\* A variant of loadPGN that leaves the hypothetical timeline and the fork
\* point as they were.
loadPGNKeepingHypothetical(tl, pgn) ==
    LET parsed == PgnHistory(INITIAL_BOARD_FEN, pgn.moves)
        history == parsed.moves
    IN  IF ~parsed.ok
        THEN [tl |-> tl, ret |-> Threw]
        ELSE [tl |-> [position |-> [main |-> TRUE, index |-> 0],
                      hypotheticalForksFrom |-> tl.hypotheticalForksFrom,
                      hypothetical |-> tl.hypothetical,
                      main |-> <<fromFEN(INITIAL_BOARD_FEN)>> \o
                               [i \in 1 .. Len(history) |->
                                   BoardState(history[i].after, history[i])]],
              ret |-> [header |-> pgn.header]]

\* loadPGN(pgn).  chess.loadPgn throws before any field is assigned.
loadPGN(tl, pgn) ==
    LET parsed == PgnHistory(INITIAL_BOARD_FEN, pgn.moves)
        history == parsed.moves
    IN  IF ~parsed.ok
        THEN [tl |-> tl, ret |-> Threw]
        ELSE [tl |-> [position |-> [main |-> TRUE, index |-> 0],
                      hypotheticalForksFrom |-> 0,
                      hypothetical |-> <<>>,
                      main |-> <<fromFEN(INITIAL_BOARD_FEN)>> \o
                               [i \in 1 .. Len(history) |->
                                   BoardState(history[i].after, history[i])]],
              ret |-> [header |-> pgn.header]]

\* A variant of forkFromMain that records the fork one index too far.
forkFromMainOffByOne(tl, nextState) ==
    [tl EXCEPT !.hypotheticalForksFrom = tl.position.index + 1,
               !.hypothetical = <<nextState>>,
               !.position = [main |-> FALSE, index |-> 0]]

\* A variant of forkFromMain that keeps the index of the cursor.
forkFromMainKeepingIndex(tl, nextState) ==
    [tl EXCEPT !.hypotheticalForksFrom = tl.position.index,
               !.hypothetical = <<nextState>>,
               !.position = [main |-> FALSE, index |-> tl.position.index]]

\* makeMove on the main timeline: fork a hypothetical timeline at the cursor.
forkFromMain(tl, nextState) ==
    [tl EXCEPT !.hypotheticalForksFrom = tl.position.index,
               !.hypothetical = <<nextState>>,
               !.position = [main |-> FALSE, index |-> 0]]

\* A variant of pushHypothetical that never clears the future.
pushHypotheticalKeepingFuture(tl, nextState) ==
    [tl EXCEPT !.hypothetical = Append(tl.hypothetical, nextState),
               !.position.index = tl.position.index + 1]

\* makeMove on the hypothetical timeline: push at its end, or clear its
\* future first.
pushHypothetical(tl, nextState) ==
    LET kept == IF tl.position.index = Len(tl.hypothetical) - 1
                THEN tl.hypothetical
                ELSE Slice(tl.hypothetical, tl.position.index + 1)
    IN  [tl EXCEPT !.hypothetical = Append(kept, nextState),
                   !.position.index = tl.position.index + 1]

\* makeMove(fromIndex, toIndex, promotion).  With no board state at the cursor
\* getBoardState() is undefined and the call of push on it throws.
makeMove(tl, fromIndex, toIndex, promotion) ==
    LET current == getBoardState(tl)
        nextState == push(current, fromIndex, toIndex, promotion)
    IN  IF current = Undefined
        THEN [tl |-> tl, ret |-> Threw]
        ELSE IF nextState = Null
        THEN [tl |-> tl, ret |-> [valid |-> FALSE, newPosition |-> getPosition(tl)]]
        ELSE LET t == IF tl.position.main
                      THEN forkFromMain(tl, nextState)
                      ELSE pushHypothetical(tl, nextState)
             IN  [tl |-> t, ret |-> [valid |-> TRUE, newPosition |-> getPosition(t)]]

\* A variant of previous that goes back to the main timeline without checking
\* that there is one.
previousIgnoringEmptyMain(tl) ==
    LET t == IF tl.position.index > 0
             THEN [tl EXCEPT !.position.index = tl.position.index - 1]
             ELSE IF tl.position.main
             THEN tl
             ELSE [tl EXCEPT !.position = [main |-> TRUE,
                                           index |-> tl.hypotheticalForksFrom],
                             !.hypothetical = <<>>]
    IN  [tl |-> t, ret |-> getPosition(t)]

\* A variant of previous that goes back to the main timeline and keeps the
\* hypothetical timeline.
previousKeepingHypothetical(tl) ==
    LET t == IF tl.position.index > 0
             THEN [tl EXCEPT !.position.index = tl.position.index - 1]
             ELSE IF ~tl.position.main /\ Len(tl.main) > 0
             THEN [tl EXCEPT !.position = [main |-> TRUE,
                                           index |-> tl.hypotheticalForksFrom]]
             ELSE tl
    IN  [tl |-> t, ret |-> getPosition(t)]

\* A variant of previous that goes back to the start of the main timeline
\* instead of the fork point.
previousToMainStart(tl) ==
    LET t == IF tl.position.index > 0
             THEN [tl EXCEPT !.position.index = tl.position.index - 1]
             ELSE IF ~tl.position.main /\ Len(tl.main) > 0
             THEN [tl EXCEPT !.position = [main |-> TRUE, index |-> 0],
                             !.hypothetical = <<>>]
             ELSE tl
    IN  [tl |-> t, ret |-> getPosition(t)]

\* A variant of previous that never leaves the hypothetical timeline.
previousNeverRejoiningMain(tl) ==
    LET t == IF tl.position.index > 0
             THEN [tl EXCEPT !.position.index = tl.position.index - 1]
             ELSE tl
    IN  [tl |-> t, ret |-> getPosition(t)]

\* previous()
previous(tl) ==
    LET t == IF tl.position.main
             THEN IF tl.position.index > 0
                  THEN [tl EXCEPT !.position.index = tl.position.index - 1]
                  ELSE tl
             ELSE IF tl.position.index > 0
                  THEN [tl EXCEPT !.position.index = tl.position.index - 1]
                  ELSE IF Len(tl.main) > 0
                  THEN [tl EXCEPT !.position = [main |-> TRUE,
                                                index |-> tl.hypotheticalForksFrom],
                                  !.hypothetical = <<>>]
                  ELSE tl
    IN  [tl |-> t, ret |-> getPosition(t)]

\* A variant of next that compares the index with the length instead of the
\* last index.
nextPastEnd(tl) ==
    LET t == IF tl.position.main
             THEN IF tl.position.index < Len(tl.main)
                  THEN [tl EXCEPT !.position.index = tl.position.index + 1]
                  ELSE tl
             ELSE IF tl.position.index < Len(tl.hypothetical)
                  THEN [tl EXCEPT !.position.index = tl.position.index + 1]
                  ELSE tl
    IN  [tl |-> t, ret |-> getPosition(t)]

\* next()
next(tl) ==
    LET t == IF tl.position.main
             THEN IF tl.position.index < Len(tl.main) - 1
                  THEN [tl EXCEPT !.position.index = tl.position.index + 1]
                  ELSE tl
             ELSE IF tl.position.index < Len(tl.hypothetical) - 1
                  THEN [tl EXCEPT !.position.index = tl.position.index + 1]
                  ELSE tl
    IN  [tl |-> t, ret |-> getPosition(t)]

\* A variant of the loop of jumpToStart that leaves after the first previous().
jumpToStartLoopOnce(tl, last) == previous(tl).tl

\* The loop of jumpToStart: previous() until the position equals the last one seen.
RECURSIVE jumpToStartLoop(_, _)
jumpToStartLoop(tl, last) ==
    LET t == previous(tl).tl
    IN  IF positionsEqual(last, getPosition(t))
        THEN t
        ELSE jumpToStartLoop(t, getPosition(t))

\* jumpToStart()
jumpToStart(tl) ==
    LET t == jumpToStartLoop(tl, getPosition(tl))
    IN  [tl |-> t, ret |-> getPosition(t)]

\* The loop of jumpToEnd: next() until the position equals the last one seen.
RECURSIVE jumpToEndLoop(_, _)
jumpToEndLoop(tl, last) ==
    LET t == next(tl).tl
    IN  IF positionsEqual(last, getPosition(t))
        THEN t
        ELSE jumpToEndLoop(t, getPosition(t))

\* jumpToEnd()
jumpToEnd(tl) ==
    LET t == jumpToEndLoop(tl, getPosition(tl))
    IN  [tl |-> t, ret |-> getPosition(t)]

----------------------------------------------------------------------------
\* The state machine: one action per public operation of BoardTimeline.

\* The length of the timeline the cursor is on.
ActiveLength == IF position.main THEN Len(main) ELSE Len(hypothetical)

\* The fields after a call, the call and its result.
Returned(op, r) ==
    /\ position' = r.tl.position
    /\ main' = r.tl.main
    /\ hypothetical' = r.tl.hypothetical
    /\ hypotheticalForksFrom' = r.tl.hypotheticalForksFrom
    /\ call' = [op |-> op, at |-> position, length |-> ActiveLength]
    /\ ret' = r.ret

Init ==
    /\ position = constructor.position
    /\ main = constructor.main
    /\ hypothetical = constructor.hypothetical
    /\ hypotheticalForksFrom = constructor.hypotheticalForksFrom
    /\ call = [op |-> "constructor", at |-> constructor.position, length |-> 1]
    /\ ret = Undefined
    /\ annotations = Null
    /\ matchMetadata = Null
    /\ stores = Null
    /\ reviewer = Null
    /\ pass = Null
    /\ engine = <<>>
    /\ modalManager = Null
    /\ reviews = <<>>

DoLoadFEN(fen) ==
    /\ Returned("loadFEN", loadFEN(Timeline, fen))
    /\ UNCHANGED <<interfaceVars, reviewVars, appVars>>

DoLoadPGN(pgn) ==
    /\ Returned("loadPGN", loadPGN(Timeline, pgn))
    /\ UNCHANGED <<interfaceVars, reviewVars, appVars>>

\* A call that changes the hypothetical timeline is made only below index
\* MaxHypothetical - 1, which keeps the timeline within MaxHypothetical
\* positions.
DoMakeMove(fromIndex, toIndex, promotion) ==
    LET r == makeMove(Timeline, fromIndex, toIndex, promotion)
    IN  /\ \/ position.main
           \/ position.index + 1 < MaxHypothetical
           \/ r.tl = Timeline
        /\ Returned("makeMove", r)
        /\ UNCHANGED <<interfaceVars, reviewVars, appVars>>

DoPrevious ==
    /\ Returned("previous", previous(Timeline))
    /\ UNCHANGED <<interfaceVars, reviewVars, appVars>>

DoNext ==
    /\ Returned("next", next(Timeline))
    /\ UNCHANGED <<interfaceVars, reviewVars, appVars>>

DoJumpToStart ==
    /\ Returned("jumpToStart", jumpToStart(Timeline))
    /\ UNCHANGED <<interfaceVars, reviewVars, appVars>>

DoJumpToEnd ==
    /\ Returned("jumpToEnd", jumpToEnd(Timeline))
    /\ UNCHANGED <<interfaceVars, reviewVars, appVars>>

\* A caller takes getMainTimeline() and writes to the array it received; the
\* write reaches _main only if that array is the one held in _main.
DoGetMainTimeline(mutation) ==
    LET result == getMainTimeline(Timeline)
        written == Mutated(result.array, mutation, fromFEN(INITIAL_BOARD_FEN))
    IN  /\ Returned("getMainTimeline",
                    [tl |-> IF result.sameArray
                            THEN [Timeline EXCEPT !.main = written]
                            ELSE Timeline,
                     ret |-> [array |-> written,
                              sameArray |-> result.sameArray]])
        /\ UNCHANGED <<interfaceVars, reviewVars, appVars>>

Next ==
    \/ \E fen \in FenStrings : DoLoadFEN(fen)
    \/ \E pgn \in PgnTexts : DoLoadPGN(pgn)
    \/ \E fromIndex \in Squares, toIndex \in Squares, promotion \in Promotions :
          DoMakeMove(fromIndex, toIndex, promotion)
    \/ DoPrevious
    \/ DoNext
    \/ DoJumpToStart
    \/ DoJumpToEnd
    \/ \E mutation \in ArrayMutations : DoGetMainTimeline(mutation)

Spec == Init /\ [][Next]_vars

----------------------------------------------------------------------------
\* The engine wrapper (src/unnamed/part_004) and the values of the engine.

\* The longest game given to a reviewer, in moves.
MaxReviewMoves == 2

\* The longest hypothetical timeline made through the interface.
MaxInterfaceHypothetical == 1

\* An Error thrown, or the reason a promise was rejected with.
Error(message) == [threw |-> TRUE, message |-> message]

\* A move in the engine's notation: "e2e4", or "e7e8q" for a promotion.  A
\* string is the sequence of its parts.
UciMove(from, to, promotion) ==
    IF promotion = "none" THEN <<from, to>> ELSE <<from, to, promotion>>

\* EvaluationScore
CentipawnAdvantage(n) == [CentipawnAdvantage |-> n]
Mate(n) == [Mate |-> n]

\* Continuation
Continuation(moves, score) == [continuation |-> moves, score |-> score]

\* An outcome of StockfishEval: "WhiteWin", "BlackWin" or "Draw".  (A value
\* that can be null is a record.)
Outcome(name) == [name |-> name]

\* StockfishEval (n_nodes, which nothing reads, is left out)
StockfishEval(eval_depth, continuations, outcome) ==
    [eval_depth |-> eval_depth, continuations |-> continuations,
     outcome |-> outcome]

\* The depth beginGameReview asks for.
ReviewDepth == 10

\* The score of a win, and of a forced mate.
WinScore == 1000

\* The engine's first choice in the position fen: the legal move to the
\* lowest square, with the promotion piece when it promotes.
EngineMove(fen) ==
    LET from == FenSquare(fen)
        to == CHOOSE t \in Squares \ {from} : \A u \in Squares \ {from} : t <= u
    IN  UciMove(from, to, IF IsPromotion(to) THEN "q" ELSE "none")

\* The scores the engine gives.
EngineScores ==
    {CentipawnAdvantage(0), CentipawnAdvantage(-100), CentipawnAdvantage(-300),
     Mate(1)}

\* The answers of get_evaluation, for the position fen, that end
\* getEvaluationToDepth: a line at the depth asked for, a finished game
\* (which has no line), and an answer at that depth without any line.
DeepEvals(fen) ==
    {StockfishEval(ReviewDepth, <<Continuation(<<EngineMove(fen)>>, score)>>, Null) :
        score \in EngineScores}
    \cup {StockfishEval(0, <<>>, Outcome("WhiteWin")), StockfishEval(ReviewDepth, <<>>, Null)}

\* An answer of get_evaluation before the search has reached the depth.
ShallowEval(fen) ==
    StockfishEval(ReviewDepth - 1,
                  <<Continuation(<<EngineMove(fen)>>, CentipawnAdvantage(0))>>,
                  Null)

\* getEvaluationToDepth's test of an answer: the loop ends with it.
ReachesDepth(sfEval, depth) ==
    sfEval.eval_depth >= depth \/ sfEval.outcome # Null

\* continuations[0]: undefined when there is no continuation.
FirstContinuation(sfEval) ==
    IF Len(sfEval.continuations) > 0 THEN sfEval.continuations[1] ELSE Undefined

\* A variant of evalAsAbsoluteScore that reads the top line first and the
\* outcome only when there is no line.
evalAsAbsoluteScoreLineFirst(sfEval) ==
    IF FirstContinuation(sfEval) # Undefined
    THEN LET score == FirstContinuation(sfEval).score
         IN  IF "Mate" \in DOMAIN score
             THEN [ok |-> TRUE,
                   value |-> IF score.Mate < 0 THEN -WinScore ELSE WinScore]
             ELSE [ok |-> TRUE, value |-> score.CentipawnAdvantage]
    ELSE IF sfEval.outcome # Null
    THEN [ok |-> TRUE,
          value |-> CASE sfEval.outcome = Outcome("Draw") -> 0
                      [] sfEval.outcome = Outcome("WhiteWin") -> WinScore
                      [] sfEval.outcome = Outcome("BlackWin") -> -WinScore]
    ELSE [ok |-> FALSE, error |-> Error("No continuation found.")]

\* evalAsAbsoluteScore(sfEval): [ok, value], or [ok, error] when it throws.
evalAsAbsoluteScore(sfEval) ==
    IF sfEval.outcome # Null
    THEN [ok |-> TRUE,
          value |-> CASE sfEval.outcome = Outcome("Draw") -> 0
                      [] sfEval.outcome = Outcome("WhiteWin") -> WinScore
                      [] sfEval.outcome = Outcome("BlackWin") -> -WinScore]
    ELSE IF FirstContinuation(sfEval) = Undefined
    THEN [ok |-> FALSE, error |-> Error("No continuation found.")]
    ELSE LET score == FirstContinuation(sfEval).score
         IN  IF "Mate" \in DOMAIN score
             THEN [ok |-> TRUE,
                   value |-> IF score.Mate < 0 THEN -WinScore ELSE WinScore]
             ELSE IF "CentipawnAdvantage" \in DOMAIN score
             THEN [ok |-> TRUE, value |-> score.CentipawnAdvantage]
             ELSE [ok |-> FALSE, error |-> Error("No score found.")]

\* getBestMove(sfEval)
getBestMove(sfEval) ==
    IF FirstContinuation(sfEval) = Undefined
    THEN Null
    ELSE FirstContinuation(sfEval).continuation[1]

----------------------------------------------------------------------------
\* The annotation store and the reviewer (src/src/lib/chess/game_review.ts).

GOOD_CP_LOSS_THRESHOLD == 50
BLUNDER_CP_LOSS_THRESHOLD == 200

\* new TimelineAnnotations(timeline): one empty slot per state.
TimelineAnnotations(timeline) ==
    [annotations |-> [i \in 1 .. Len(timeline) |-> Null]]

\* A variant of addAnnotation that writes one slot lower.
addAnnotationOneLower(store, index, annotation) ==
    [annotations |->
        [i \in 1 .. Len(store.annotations) |->
            IF i = index THEN annotation ELSE store.annotations[i]]]

\* addAnnotation(index, annotation); a write past the end extends the array.
addAnnotation(store, index, annotation) ==
    LET length == Len(store.annotations)
    IN  [annotations |->
            [i \in 1 .. (IF index + 1 > length THEN index + 1 ELSE length) |->
                IF i = index + 1 THEN annotation
                ELSE IF i <= length THEN store.annotations[i] ELSE Undefined]]

\* getAnnotationAt(index)
getAnnotationAt(store, index) ==
    IF At(store.annotations, index) = Undefined
    THEN Null
    ELSE At(store.annotations, index)

\* The opening books /resources/data/openings.json can hold: names is the
\* object read from it, the name of each position that has one.
OpeningBooks ==
    {[names |-> [fen \in {} |-> "opening"]],
     [names |-> [fen \in {ChessMove(INITIAL_BOARD_FEN, 0, 1, "none").after} |->
                    "opening"]]}

\* A number as a fraction, for _progress and the accuracies.
Ratio(num, den) == [num |-> num, den |-> den]

\* isPositiveFeedback(feedback)
isPositiveFeedback(feedback) ==
    feedback \in {"book", "brilliant", "best", "good"}

\* `annotation &&`: the slot holds an annotation (null and undefined do not
\* count).
Truthy(annotation) == annotation # Null /\ annotation # Undefined

\* A variant of computeAccuracy that divides by the number of moves.
computeAccuracyOverMoves(store) ==
    Ratio(Cardinality({i \in DOMAIN store.annotations :
                          /\ Truthy(store.annotations[i])
                          /\ isPositiveFeedback(store.annotations[i].feedback)}),
          Len(store.annotations) - 1)

\* computeAccuracy(): numGoodMoves / this._annotations.length.  A division
\* by zero is the fraction with denominator 0 (0 / 0 is NaN).
computeAccuracy(store) ==
    Ratio(Cardinality({i \in DOMAIN store.annotations :
                          /\ Truthy(store.annotations[i])
                          /\ isPositiveFeedback(store.annotations[i].feedback)}),
          Len(store.annotations))

\* The weight computeWeightedAccuracy adds for an annotation, in quarters:
\* 1 for best and brilliant, 0.5 for good, 0.25 for dubious, nothing for the
\* other labels and for an empty slot.
moveWeight(annotation) ==
    IF ~Truthy(annotation) THEN 0
    ELSE CASE annotation.feedback = "best" -> 4
           [] annotation.feedback = "brilliant" -> 4
           [] annotation.feedback = "good" -> 2
           [] annotation.feedback = "dubious" -> 1
           [] OTHER -> 0

\* weightedScore after the loop over the slots from index i on, in quarters.
RECURSIVE weightedScore(_, _)
weightedScore(slots, i) ==
    IF i > Len(slots) THEN 0
    ELSE moveWeight(slots[i]) + weightedScore(slots, i + 1)

\* computeWeightedAccuracy(): weightedScore / this._annotations.length, the
\* score being counted in quarters.
computeWeightedAccuracy(store) ==
    Ratio(weightedScore(store.annotations, 1), 4 * Len(store.annotations))

\* numMovesOfType(feedback)
numMovesOfType(store, feedback) ==
    Cardinality({i \in DOMAIN store.annotations :
                    /\ Truthy(store.annotations[i])
                    /\ store.annotations[i].feedback = feedback})

\* The turn of the position fen: "b" when black is to move.
BlackToMove(fen) == FenTurn(fen) = 1

\* A variant of Evaluated that takes the difference as white sees it for
\* either side.
EvaluatedForWhite(timeline, i, lastScore, sfEval) ==
    LET thisScore == evalAsAbsoluteScore(sfEval)
        lastState == IF i = 0 THEN timeline[1] ELSE timeline[i]
        deltaScore == thisScore.value - lastScore
    IN  IF ~thisScore.ok
        THEN thisScore
        ELSE [ok |-> TRUE,
              evaluation |-> [eval |-> sfEval,
                              deltaScore |-> deltaScore],
              score |-> thisScore.value]

\* One round of the loop of _getEvaluations after its await: the score of
\* the answer for index i, its delta against the score before, seen from the
\* side that moved.  [ok, evaluation, score], or [ok, error].
Evaluated(timeline, i, lastScore, sfEval) ==
    LET thisScore == evalAsAbsoluteScore(sfEval)
        lastState == IF i = 0 THEN timeline[1] ELSE timeline[i]
        deltaScore == thisScore.value - lastScore
    IN  IF ~thisScore.ok
        THEN thisScore
        ELSE [ok |-> TRUE,
              evaluation |-> [eval |-> sfEval,
                              deltaScore |-> IF BlackToMove(lastState.fen)
                                             THEN -deltaScore ELSE deltaScore],
              score |-> thisScore.value]

\* A TypeError: a property of undefined was read.
TypeError == Error("TypeError")

\* A variant of Annotated that tests for the engine's best move before the
\* opening book.
AnnotatedBestFirst(timeline, evaluations, openingBook, i) ==
    LET sfEval == evaluations[i + 1].eval
        deltaScore == evaluations[i + 1].deltaScore
        movePlayed == IF At(timeline, i) = Undefined \/ At(timeline, i).move = Null
                      THEN Null ELSE At(timeline, i).move
        before == FirstContinuation(evaluations[i].eval)
        after == FirstContinuation(sfEval)
        bestMove == before.continuation[1]
        best == ChessMove(timeline[i].fen, bestMove[1], bestMove[2],
                          IF Len(bestMove) > 2 THEN bestMove[3] ELSE "none")
        bestMoveSan == best.to
        \* a move without properties ({}) is truthy but has no after, from
        \* or to: it is neither in the book nor the best move
        played == movePlayed # Null /\ movePlayed # EmptyObject
        done(feedback, description) ==
            [ok |-> TRUE,
             annotation |-> [feedback |-> feedback,
                             description |-> description,
                             evaluation |-> sfEval,
                             deltaScore |-> deltaScore,
                             bestMove |-> getBestMove(sfEval)]]
        failed == [ok |-> FALSE, error |-> TypeError]
    IN  IF before = Undefined \/ best = Null
        THEN failed
        ELSE IF played /\ <<movePlayed.from, movePlayed.to>> = bestMove
        THEN done("best", [text |-> ""])
        ELSE IF played /\ movePlayed.after \in DOMAIN openingBook.names
        THEN done("book", [text |-> "This move plays the",
                           name |-> openingBook.names[movePlayed.after]])
        ELSE IF "Mate" \in DOMAIN before.score /\ after = Undefined
        THEN failed
        ELSE IF "Mate" \in DOMAIN before.score /\ ~("Mate" \in DOMAIN after.score)
        THEN done("miss", [text |-> ""])
        ELSE IF deltaScore >= -GOOD_CP_LOSS_THRESHOLD
        THEN done("good", [text |-> "A better move was", san |-> bestMoveSan])
        ELSE IF deltaScore >= -BLUNDER_CP_LOSS_THRESHOLD
        THEN done("dubious", [text |-> "The best move was", san |-> bestMoveSan])
        ELSE IF after = Undefined
        THEN failed
        ELSE IF "Mate" \in DOMAIN after.score /\ ~("Mate" \in DOMAIN before.score)
        THEN done("blunder", [text |-> "This move allows a mate in",
                              mate |-> after.score.Mate,
                              san |-> bestMoveSan])
        ELSE done("blunder", [text |-> "The best move was", san |-> bestMoveSan])

\* One round of the annotation loop of beginGameReview, for index i >= 1:
\* [ok, annotation], or [ok, error] when a line throws.
Annotated(timeline, evaluations, openingBook, i) ==
    LET sfEval == evaluations[i + 1].eval
        deltaScore == evaluations[i + 1].deltaScore
        movePlayed == IF At(timeline, i) = Undefined \/ At(timeline, i).move = Null
                      THEN Null ELSE At(timeline, i).move
        before == FirstContinuation(evaluations[i].eval)
        after == FirstContinuation(sfEval)
        bestMove == before.continuation[1]
        best == ChessMove(timeline[i].fen, bestMove[1], bestMove[2],
                          IF Len(bestMove) > 2 THEN bestMove[3] ELSE "none")
        bestMoveSan == best.to
        \* a move without properties ({}) is truthy but has no after, from
        \* or to: it is neither in the book nor the best move
        played == movePlayed # Null /\ movePlayed # EmptyObject
        done(feedback, description) ==
            [ok |-> TRUE,
             annotation |-> [feedback |-> feedback,
                             description |-> description,
                             evaluation |-> sfEval,
                             deltaScore |-> deltaScore,
                             bestMove |-> getBestMove(sfEval)]]
        failed == [ok |-> FALSE, error |-> TypeError]
    IN  IF before = Undefined \/ best = Null
        THEN failed
        ELSE IF played /\ movePlayed.after \in DOMAIN openingBook.names
        THEN done("book", [text |-> "This move plays the",
                           name |-> openingBook.names[movePlayed.after]])
        ELSE IF played /\ <<movePlayed.from, movePlayed.to>> = bestMove
        THEN done("best", [text |-> ""])
        ELSE IF "Mate" \in DOMAIN before.score /\ after = Undefined
        THEN failed
        ELSE IF "Mate" \in DOMAIN before.score /\ ~("Mate" \in DOMAIN after.score)
        THEN done("miss", [text |-> ""])
        ELSE IF deltaScore >= -GOOD_CP_LOSS_THRESHOLD
        THEN done("good", [text |-> "A better move was", san |-> bestMoveSan])
        ELSE IF deltaScore >= -BLUNDER_CP_LOSS_THRESHOLD
        THEN done("dubious", [text |-> "The best move was", san |-> bestMoveSan])
        ELSE IF after = Undefined
        THEN failed
        ELSE IF "Mate" \in DOMAIN after.score /\ ~("Mate" \in DOMAIN before.score)
        THEN done("blunder", [text |-> "This move allows a mate in",
                              mate |-> after.score.Mate,
                              san |-> bestMoveSan])
        ELSE done("blunder", [text |-> "The best move was", san |-> bestMoveSan])

\* new GameReviewer(timeline): the fields, or the Error thrown.
GameReviewer(timeline) ==
    IF Len(timeline) = 0
    THEN Error("Game timeline must not be empty")
    ELSE [timelineAnnotations |-> TimelineAnnotations(timeline),
          timeline |-> timeline,
          busy |-> FALSE,
          completed |-> FALSE,
          progress |-> Ratio(0, 1)]

\* isBusy(), isCompleted(), getProgress()
isBusy(r) == r.busy
isCompleted(r) == r.completed
getProgress(r) == r.progress

\* A variant of getAnnotations that goes by the progress.
getAnnotationsByProgress(r) ==
    IF r.progress.num < r.progress.den THEN Null ELSE r.timelineAnnotations

\* getAnnotations()
getAnnotations(r) == IF ~r.completed THEN Null ELSE r.timelineAnnotations

\* The commands of the engine; index is the round of _getEvaluations that
\* sent the command.
StartEvaluation(fen, index) ==
    [command |-> "start_evaluation", fen |-> fen, index |-> index]
StopEvaluation == [command |-> "stop_evaluation"]

\* A run of beginGameReview: the await it is suspended at ("getEvaluation",
\* "fetch") or how it ended ("returned", "threw" with the error); the locals
\* i, evaluations and lastScore of _getEvaluations; and whether the engine
\* has rejected a get_evaluation of the run.
NoPass ==
    [at |-> "none", i |-> 0, evaluations |-> <<>>, lastScore |-> 0,
     error |-> Null, engineFailed |-> FALSE]

\* The reviewer, the run of beginGameReview and the engine's commands.
Review == [reviewer |-> reviewer, pass |-> pass, engine |-> engine]

\* A variant of the re-entry checks that lets a completed reviewer run again.
reentryIgnoringCompleted(r) ==
    IF r.busy THEN Error("Game review already in progress.") ELSE Null

\* The re-entry checks of beginGameReview: the Error thrown, or null.
reentry(r) ==
    IF r.busy THEN Error("Game review already in progress.")
    ELSE IF r.completed THEN Error("Game review already completed.")
    ELSE Null

\* beginGameReview() up to its first await: the re-entry checks, the stop
\* command, _busy, and the first round of _getEvaluations up to the await
\* of get_evaluation inside getEvaluationToDepth.
beginGameReview(rv) ==
    IF reentry(rv.reviewer) # Null
    THEN [rv |-> rv, ret |-> reentry(rv.reviewer)]
    ELSE [rv |-> [reviewer |-> [rv.reviewer EXCEPT !.busy = TRUE],
                  pass |-> [NoPass EXCEPT !.at = "getEvaluation"],
                  engine |-> rv.engine \o
                             <<StopEvaluation,
                               StartEvaluation(rv.reviewer.timeline[1].fen, 0)>>],
          ret |-> [pending |-> TRUE]]

\* A variant of progressAfter that counts the rounds before this one.
progressBefore(i, length) == Ratio(i, length)

\* _progress after round i of _getEvaluations.
progressAfter(i, length) == Ratio(i + 1, length)

\* A variant of roundCommands that starts the evaluation of the same
\* position again.
roundCommandsRepeating(timeline, i) ==
    <<StopEvaluation, StartEvaluation(timeline[i + 1].fen, i)>>

\* The commands sent when the answer of round i ends getEvaluationToDepth:
\* the stop, and the start of the next round if there is one.
roundCommands(timeline, i) ==
    <<StopEvaluation>> \o
    (IF i + 1 < Len(timeline)
     THEN <<StartEvaluation(timeline[i + 2].fen, i + 1)>>
     ELSE <<>>)

\* A promise was rejected.
IsRejection(answer) == "threw" \in DOMAIN answer

\* The run of beginGameReview ends with an error: _busy stays as it is.
threw(rv, error) ==
    [rv EXCEPT !.pass.at = "threw", !.pass.error = error]

\* get_evaluation answered, in round i of _getEvaluations.  A rejection is
\* caught by getEvaluationToDepth, which asks again; an answer short of the
\* depth is followed by a sleep and the next question; any other answer
\* ends getEvaluationToDepth, and the round goes on to the await of the next
\* round or, after the last round, to the await of the opening book.
getEvaluationAnswered(rv, answer) ==
    LET r == rv.reviewer
        p == rv.pass
        e == Evaluated(r.timeline, p.i, p.lastScore, answer)
        stopped == [rv EXCEPT !.engine = rv.engine \o <<StopEvaluation>>]
    IN  IF IsRejection(answer)
        THEN [rv EXCEPT !.pass.engineFailed = TRUE]
        ELSE IF ~ReachesDepth(answer, ReviewDepth)
        THEN rv
        ELSE IF ~e.ok
        THEN threw(stopped, e.error)
        ELSE [reviewer |-> [r EXCEPT !.progress =
                                         progressAfter(p.i, Len(r.timeline))],
              pass |-> [p EXCEPT !.i = p.i + 1,
                                 !.evaluations = Append(p.evaluations, e.evaluation),
                                 !.lastScore = e.score,
                                 !.at = IF p.i + 1 < Len(r.timeline)
                                        THEN "getEvaluation" ELSE "fetch"],
              engine |-> rv.engine \o roundCommands(r.timeline, p.i)]

\* A variant of annotate with a rule for Brilliant in the decision list: a
\* move that would be Good and gains advantage is labelled Brilliant.
RECURSIVE annotateWithBrilliant(_, _, _, _, _)
annotateWithBrilliant(store, timeline, evaluations, openingBook, i) ==
    IF i >= Len(evaluations)
    THEN [store |-> store, error |-> Null]
    ELSE LET a == Annotated(timeline, evaluations, openingBook, i)
             labelled ==
                 IF a.annotation.feedback = "good" /\ a.annotation.deltaScore > 0
                 THEN [a.annotation EXCEPT !.feedback = "brilliant"]
                 ELSE a.annotation
         IN  IF ~a.ok
             THEN [store |-> store, error |-> a.error]
             ELSE annotateWithBrilliant(addAnnotation(store, i, labelled),
                                        timeline, evaluations, openingBook,
                                        i + 1)

\* The annotation loop of beginGameReview from index i on: the store, and
\* the error if a round threw.
RECURSIVE annotate(_, _, _, _, _)
annotate(store, timeline, evaluations, openingBook, i) ==
    IF i >= Len(evaluations)
    THEN [store |-> store, error |-> Null]
    ELSE LET a == Annotated(timeline, evaluations, openingBook, i)
         IN  IF ~a.ok
             THEN [store |-> store, error |-> a.error]
             ELSE annotate(addAnnotation(store, i, a.annotation), timeline,
                           evaluations, openingBook, i + 1)

\* The fetch of the opening book answered: a rejection ends beginGameReview
\* with that error; with a book, every index from 1 on is annotated, and
\* then _busy and _completed are set.
openingBookAnswered(rv, answer) ==
    LET r == rv.reviewer
        done == annotate(r.timelineAnnotations, r.timeline,
                         rv.pass.evaluations, answer, 1)
    IN  IF IsRejection(answer)
        THEN threw(rv, answer)
        ELSE IF done.error # Null
        THEN threw([rv EXCEPT !.reviewer.timelineAnnotations = done.store],
                   done.error)
        ELSE [rv EXCEPT !.reviewer.timelineAnnotations = done.store,
                        !.reviewer.busy = FALSE,
                        !.reviewer.completed = TRUE,
                        !.pass.at = "returned"]

----------------------------------------------------------------------------
\* The reviewer as a state machine: one reviewer of one game, the engine
\* and the opening book.

\* The games given to a reviewer: the main timeline, as getMainTimeline
\* returns it, of every text of at most MaxReviewMoves moves that parses.
ReviewTimelines ==
    {getMainTimeline(loadPGN(constructor, [header |-> "game1", moves |-> moves]).tl).array :
        moves \in {m \in SeqsUpTo(Squares, MaxReviewMoves) :
                      PgnHistory(INITIAL_BOARD_FEN, m).ok}}

\* What get_evaluation can answer while the position fen is evaluated.
EngineAnswers(fen) ==
    DeepEvals(fen) \cup {ShallowEval(fen), Error("get_evaluation failed")}

\* What the fetch of the opening book can answer.
FetchAnswers == OpeningBooks \cup {Error("Failed to fetch")}

\* The fields after a step of the reviewer, the step and what it returned or
\* was answered.
Reviewed(op, rv, result) ==
    /\ reviewer' = rv.reviewer
    /\ pass' = rv.pass
    /\ engine' = rv.engine
    /\ call' = [op |-> op]
    /\ ret' = result
    /\ UNCHANGED <<timelineVars, interfaceVars, appVars>>

ReviewInit ==
    /\ position = constructor.position
    /\ main = constructor.main
    /\ hypothetical = constructor.hypothetical
    /\ hypotheticalForksFrom = constructor.hypotheticalForksFrom
    /\ annotations = Null
    /\ matchMetadata = Null
    /\ stores = Null
    /\ \E timeline \in ReviewTimelines : reviewer = GameReviewer(timeline)
    /\ pass = NoPass
    /\ engine = <<>>
    /\ modalManager = Null
    /\ reviews = <<>>
    /\ call = [op |-> "GameReviewer"]
    /\ ret = Undefined

\* beginGameReview() is called, in any state of the reviewer.
DoBeginGameReview ==
    LET r == beginGameReview(Review)
    IN  Reviewed("beginGameReview", r.rv, r.ret)

\* The engine answers the get_evaluation the run is waiting for.
DoGetEvaluation(answer) ==
    /\ pass.at = "getEvaluation"
    /\ Reviewed("get_evaluation", getEvaluationAnswered(Review, answer), answer)

\* The fetch of the opening book the run is waiting for is answered.
DoFetchOpeningBook(answer) ==
    /\ pass.at = "fetch"
    /\ Reviewed("fetch", openingBookAnswered(Review, answer), answer)

ReviewNext ==
    \/ DoBeginGameReview
    \/ /\ pass.at = "getEvaluation"
       /\ \E answer \in EngineAnswers(reviewer.timeline[pass.i + 1].fen) :
             DoGetEvaluation(answer)
    \/ \E answer \in FetchAnswers : DoFetchOpeningBook(answer)

SpecReview == ReviewInit /\ [][ReviewNext]_vars

----------------------------------------------------------------------------
\* A whole run of beginGameReview as a function of what the engine and the
\* opening book answer, for the labels: the engine's lines and scores are
\* drawn from the values the decision list of beginGameReview tells apart.

\* The scores of a top line: centipawn advantages around the two thresholds,
\* one more than BLUNDER_CP_LOSS_THRESHOLD above the score of a mate, a mate
\* by white and a mate by black.
LabelScores ==
    {CentipawnAdvantage(0), CentipawnAdvantage(50), CentipawnAdvantage(200),
     CentipawnAdvantage(201),
     CentipawnAdvantage(WinScore + BLUNDER_CP_LOSS_THRESHOLD + 1),
     Mate(1), Mate(-1)}

\* The first move of a top line in the position fen: any legal move, in the
\* engine's notation.
EngineMoves(fen) ==
    {UciMove(FenSquare(fen), to, IF IsPromotion(to) THEN "q" ELSE "none") :
        to \in {t \in Squares : ChessMove(fen, FenSquare(fen), t, "q") # Null}}

\* The answers of get_evaluation that end getEvaluationToDepth for the
\* position fen: a top line with a score, a finished game (won by white or
\* drawn without a line, won by black with a line left over), and an answer
\* at the depth without any line.
LabelEvals(fen) ==
    {StockfishEval(ReviewDepth, <<Continuation(<<move>>, score)>>, Null) :
        move \in EngineMoves(fen), score \in LabelScores}
    \cup {StockfishEval(0, <<>>, Outcome("WhiteWin")),
          StockfishEval(0, <<>>, Outcome("Draw")),
          StockfishEval(0, <<Continuation(<<EngineMove(fen)>>, Mate(1))>>,
                        Outcome("BlackWin")),
          StockfishEval(ReviewDepth, <<>>, Null)}

\* One final answer for every position of the timeline from index i on.
RECURSIVE AnswersFrom(_, _)
AnswersFrom(timeline, i) ==
    IF i > Len(timeline) THEN {<<>>}
    ELSE {<<answer>> \o rest : answer \in LabelEvals(timeline[i].fen),
                               rest \in AnswersFrom(timeline, i + 1)}

\* The rounds of _getEvaluations, each answered by the next of the answers,
\* until the run leaves the await of get_evaluation.
RECURSIVE answered(_, _)
answered(rv, answers) ==
    IF answers = <<>> \/ rv.pass.at # "getEvaluation"
    THEN rv
    ELSE answered(getEvaluationAnswered(rv, Head(answers)), Tail(answers))

\* beginGameReview() from the call to its end, the engine answering with
\* answers and the fetch with openingBook.
reviewWith(rv, answers, openingBook) ==
    LET begun == beginGameReview(rv)
        evaluated == answered(begun.rv, answers)
    IN  IF reentry(rv.reviewer) # Null
        THEN rv
        ELSE IF evaluated.pass.at = "fetch"
        THEN openingBookAnswered(evaluated, openingBook)
        ELSE evaluated

\* The games reviewed: the main timeline, as getMainTimeline returns it, of
\* every text that parses.
LabelTimelines ==
    {getMainTimeline(loadPGN(constructor, pgn).tl).array :
        pgn \in {t \in PgnTexts : t.header = "game1" /\ Parses(t)}}

LabelInit ==
    /\ position = constructor.position
    /\ main = constructor.main
    /\ hypothetical = constructor.hypothetical
    /\ hypotheticalForksFrom = constructor.hypotheticalForksFrom
    /\ annotations = Null
    /\ matchMetadata = Null
    /\ stores = Null
    /\ \E timeline \in LabelTimelines : reviewer = GameReviewer(timeline)
    /\ pass = NoPass
    /\ engine = <<>>
    /\ modalManager = Null
    /\ reviews = <<>>
    /\ call = [op |-> "GameReviewer"]
    /\ ret = Undefined

\* A new reviewer runs beginGameReview to its end; what the engine and the
\* fetch answered is kept with the result.
DoReviewWith(answers, openingBook) ==
    /\ pass = NoPass
    /\ Reviewed("beginGameReview", reviewWith(Review, answers, openingBook),
                [answers |-> answers, openingBook |-> openingBook])

LabelNext ==
    /\ pass = NoPass
    /\ \E answers \in AnswersFrom(reviewer.timeline, 1),
          openingBook \in OpeningBooks :
           DoReviewWith(answers, openingBook)

SpecLabel == LabelInit /\ [][LabelNext]_vars

----------------------------------------------------------------------------
\* The interface (src/src/lib/chess/chess_interface.ts): the timeline, the
\* annotations and the metadata of the game, and the stores it publishes.

\* The interface: its timeline, its other fields and the values in its
\* stores.
Interface ==
    [timeline |-> Timeline, annotations |-> annotations,
     matchMetadata |-> matchMetadata, stores |-> stores]

\* _makeMatchMetadata()
makeMatchMetadata(ci) ==
    IF ci.matchMetadata # Null THEN ci.matchMetadata ELSE EmptyObject

\* _makeAnnotations()
makeAnnotations(ci) ==
    IF ci.annotations # Null
    THEN ci.annotations
    ELSE TimelineAnnotations(getMainTimeline(ci.timeline).array)

\* _makeTimelineState()
makeTimelineState(ci) ==
    [position |-> getPosition(ci.timeline),
     main |-> getMainTimeline(ci.timeline).array,
     hypothetical |-> getHypotheticalTimeline(ci.timeline).array]

\* _updateStores()
updateStores(ci) ==
    [ci EXCEPT !.stores = [boardState |-> getBoardState(ci.timeline),
                           timelineState |-> makeTimelineState(ci),
                           annotations |-> makeAnnotations(ci),
                           matchMetadata |-> makeMatchMetadata(ci)]]

\* new ChessInterface()
ChessInterface ==
    updateStores([timeline |-> constructor, annotations |-> Null,
                  matchMetadata |-> Null, stores |-> Null])

\* A variant of updateIfMoved that compares the index of the cursor only.
updateIfIndexMoved(ci, r, lastPosition) ==
    LET called == [ci EXCEPT !.timeline = r.tl]
    IN  [interface |-> IF r.tl.position.index = lastPosition.index
                       THEN called ELSE updateStores(called),
         ret |-> r.ret]

\* After a call r of the timeline that moved the cursor from lastPosition,
\* the stores are updated; after any other they are not.
updateIfMoved(ci, r, lastPosition) ==
    LET called == [ci EXCEPT !.timeline = r.tl]
    IN  [interface |-> IF positionsEqual(r.tl.position, lastPosition)
                       THEN called ELSE updateStores(called),
         ret |-> r.ret]

\* ChessInterface.makeMove(fromIndex, toIndex, promotion)
ChessInterface_makeMove(ci, fromIndex, toIndex, promotion) ==
    LET lastPosition == getPosition(ci.timeline)
        r == makeMove(ci.timeline, fromIndex, toIndex, promotion)
        called == [ci EXCEPT !.timeline = r.tl]
    IN  IF r.ret = Threw
        THEN [interface |-> called, ret |-> Threw]
        ELSE [interface |-> IF r.ret.valid /\
                               ~positionsEqual(r.ret.newPosition, lastPosition)
                            THEN updateStores(called) ELSE called,
              ret |-> r.ret]

\* ChessInterface.loadAnnotations(annotations)
ChessInterface_loadAnnotations(ci, store) ==
    [interface |-> updateStores([ci EXCEPT !.annotations = store]),
     ret |-> Undefined]

\* ChessInterface.clearAnnotations()
ChessInterface_clearAnnotations(ci) ==
    [interface |-> updateStores([ci EXCEPT !.annotations = Null]),
     ret |-> Undefined]

\* ChessInterface.previous(), next(), jumpToEnd(), jumpToStart()
ChessInterface_previous(ci) ==
    updateIfMoved(ci, previous(ci.timeline), getPosition(ci.timeline))
ChessInterface_next(ci) ==
    updateIfMoved(ci, next(ci.timeline), getPosition(ci.timeline))
ChessInterface_jumpToEnd(ci) ==
    updateIfMoved(ci, jumpToEnd(ci.timeline), getPosition(ci.timeline))
ChessInterface_jumpToStart(ci) ==
    updateIfMoved(ci, jumpToStart(ci.timeline), getPosition(ci.timeline))

\* A variant of ChessInterface.loadPGN that forgets the metadata before it
\* gives the text to the timeline.
ChessInterface_loadPGNForgetting(ci, pgn) ==
    LET r == loadPGN(ci.timeline, pgn)
    IN  IF r.ret = Threw
        THEN [interface |-> [ci EXCEPT !.matchMetadata = Null], ret |-> Threw]
        ELSE [interface |-> updateStores([ci EXCEPT !.timeline = r.tl,
                                                    !.matchMetadata = r.ret]),
              ret |-> Undefined]

\* ChessInterface.loadPGN(pgn): when the timeline's loadPGN throws, the
\* assignment of _matchMetadata and _updateStores() are not reached.
ChessInterface_loadPGN(ci, pgn) ==
    LET r == loadPGN(ci.timeline, pgn)
    IN  IF r.ret = Threw
        THEN [interface |-> ci, ret |-> Threw]
        ELSE [interface |-> updateStores([ci EXCEPT !.timeline = r.tl,
                                                    !.matchMetadata = r.ret]),
              ret |-> Undefined]

\* An annotation, and the store of length slots that holds it at every
\* index from 1 on: the stores given to loadAnnotations.
SampleAnnotation ==
    [feedback |-> "good",
     description |-> [text |-> ""],
     evaluation |-> StockfishEval(0, <<>>, Outcome("Draw")),
     deltaScore |-> 0,
     bestMove |-> Null]
SampleStore(length) ==
    [annotations |-> [i \in 1 .. length |-> IF i = 1 THEN Null ELSE SampleAnnotation]]

\* The fields after a call of the interface, the call (for loadPGN with
\* whether its text parses) and its result.
Published(called, r) ==
    /\ position' = r.interface.timeline.position
    /\ main' = r.interface.timeline.main
    /\ hypothetical' = r.interface.timeline.hypothetical
    /\ hypotheticalForksFrom' = r.interface.timeline.hypotheticalForksFrom
    /\ annotations' = r.interface.annotations
    /\ matchMetadata' = r.interface.matchMetadata
    /\ stores' = r.interface.stores
    /\ call' = called
    /\ ret' = r.ret
    /\ UNCHANGED <<reviewVars, appVars>>

InterfaceInit ==
    /\ position = ChessInterface.timeline.position
    /\ main = ChessInterface.timeline.main
    /\ hypothetical = ChessInterface.timeline.hypothetical
    /\ hypotheticalForksFrom = ChessInterface.timeline.hypotheticalForksFrom
    /\ annotations = ChessInterface.annotations
    /\ matchMetadata = ChessInterface.matchMetadata
    /\ stores = ChessInterface.stores
    /\ reviewer = Null
    /\ pass = Null
    /\ engine = <<>>
    /\ modalManager = Null
    /\ reviews = <<>>
    /\ call = [op |-> "ChessInterface"]
    /\ ret = Undefined

\* A call that lengthens the hypothetical timeline is made only below index
\* MaxInterfaceHypothetical - 1.
InterfaceMakeMove(fromIndex, toIndex, promotion) ==
    LET r == ChessInterface_makeMove(Interface, fromIndex, toIndex, promotion)
    IN  /\ \/ position.main
           \/ position.index + 1 < MaxInterfaceHypothetical
           \/ r.interface.timeline = Timeline
        /\ Published([op |-> "makeMove"], r)

InterfacePrevious ==
    Published([op |-> "previous"], ChessInterface_previous(Interface))

InterfaceNext == Published([op |-> "next"], ChessInterface_next(Interface))

InterfaceJumpToStart ==
    Published([op |-> "jumpToStart"], ChessInterface_jumpToStart(Interface))

InterfaceJumpToEnd ==
    Published([op |-> "jumpToEnd"], ChessInterface_jumpToEnd(Interface))

InterfaceLoadPGN(pgn) ==
    Published([op |-> "loadPGN", parses |-> Parses(pgn)],
              ChessInterface_loadPGN(Interface, pgn))

\* The store of a review of the main timeline is loaded.
InterfaceLoadAnnotations ==
    /\ Len(main) > 0
    /\ Published([op |-> "loadAnnotations"],
                 ChessInterface_loadAnnotations(Interface,
                                                SampleStore(Len(main))))

InterfaceClearAnnotations ==
    Published([op |-> "clearAnnotations"],
              ChessInterface_clearAnnotations(Interface))

InterfaceStep ==
    \/ \E fromIndex \in Squares, toIndex \in Squares, promotion \in Promotions :
          InterfaceMakeMove(fromIndex, toIndex, promotion)
    \/ InterfacePrevious
    \/ InterfaceNext
    \/ InterfaceJumpToStart
    \/ InterfaceJumpToEnd
    \/ \E pgn \in PgnTexts : InterfaceLoadPGN(pgn)
    \/ InterfaceLoadAnnotations
    \/ InterfaceClearAnnotations

SpecInterface == InterfaceInit /\ [][InterfaceStep]_vars

----------------------------------------------------------------------------
\* The modal manager (src/src/lib/ui/modal_manager.ts).

\* The number of argument objects given to open.
NumModalArgs == 5

\* A modal component, by name.
ModalComponent(name) == [component |-> name]

\* The modal components of the application.
ModalComponents == {ModalComponent("Upload"), ModalComponent("GameReview")}

\* The argument objects given to open: { chessInterface }.
ModalArgs == {[chessInterface |-> i] : i \in 1 .. NumModalArgs}

\* new ModalManager(): _modal and the modal store are null, the args store
\* is null and _args is not assigned.
ModalManager ==
    [modal |-> Null, args |-> Undefined,
     stores |-> [modal |-> Null, args |-> Null]]

\* A variant of open that never looks at the modal that is open.
ModalManager_openAlways(mm, component, args, force) ==
    [modal |-> component, args |-> args,
     stores |-> [modal |-> component, args |-> args]]

\* open(component, args, force)
ModalManager_open(mm, component, args, force) ==
    IF mm.modal # Null /\ ~force
    THEN mm
    ELSE [modal |-> component, args |-> args,
          stores |-> [modal |-> component, args |-> args]]

\* close(): _args and the args store are left as they are.
ModalManager_close(mm) ==
    [mm EXCEPT !.modal = Null, !.stores.modal = Null]

\* The modal manager as a state machine: open with any component, argument
\* object and force, and close.
ModalInit ==
    /\ position = constructor.position
    /\ main = constructor.main
    /\ hypothetical = constructor.hypothetical
    /\ hypotheticalForksFrom = constructor.hypotheticalForksFrom
    /\ annotations = Null
    /\ matchMetadata = Null
    /\ stores = Null
    /\ reviewer = Null
    /\ pass = Null
    /\ engine = <<>>
    /\ modalManager = ModalManager
    /\ reviews = <<>>
    /\ call = [op |-> "ModalManager"]
    /\ ret = Undefined

ModalOpen(component, args, force) ==
    /\ modalManager' = ModalManager_open(modalManager, component, args, force)
    /\ call' = [op |-> "open", component |-> component, args |-> args,
                force |-> force]
    /\ ret' = Undefined
    /\ UNCHANGED <<timelineVars, interfaceVars, reviewVars, reviews>>

ModalClose ==
    /\ modalManager' = ModalManager_close(modalManager)
    /\ call' = [op |-> "close"]
    /\ ret' = Undefined
    /\ UNCHANGED <<timelineVars, interfaceVars, reviewVars, reviews>>

ModalNext ==
    \/ \E component \in ModalComponents, args \in ModalArgs, force \in BOOLEAN :
          ModalOpen(component, args, force)
    \/ ModalClose

SpecModal == ModalInit /\ [][ModalNext]_vars

----------------------------------------------------------------------------
\* The application (src/src/App.svelte, the Modal component that shows the
\* current modal, and the modals Upload and GameReview): one ChessInterface,
\* one ModalManager, the GameReview components created so far and the one
\* engine every Stockfish object refers to.

\* The most GameReview components created.
MaxReviews == 2

\* { chessInterface }: the args App gives to open.
AppArgs == [chessInterface |-> 1]

\* The games imported in the application: one without moves and one of one
\* move.
AppTexts ==
    {[header |-> "game1", moves |-> <<>>], [header |-> "game2", moves |-> <<1>>]}

\* The opening book the application is served.
AppOpeningBook == [names |-> [fen \in {} |-> "opening"]]

\* The position of the evaluation the engine was told to start last (the
\* engine has one evaluation: a start replaces the one in progress), or null
\* when none was started.
RECURSIVE EnginePosition(_)
EnginePosition(commands) ==
    IF commands = <<>> THEN Null
    ELSE IF commands[Len(commands)].command = "start_evaluation"
    THEN [fen |-> commands[Len(commands)].fen]
    ELSE EnginePosition(SubSeq(commands, 1, Len(commands) - 1))

\* The answer of get_evaluation once the evaluation of the position fen has
\* reached the depth.
FinalEval(fen) ==
    StockfishEval(ReviewDepth,
                  <<Continuation(<<EngineMove(fen)>>, CentipawnAdvantage(0))>>,
                  Null)

\* The reviewer and the run of the component made k-th, with the engine.
ReviewOf(k) ==
    [reviewer |-> reviews[k].reviewer, pass |-> reviews[k].pass,
     engine |-> engine]

\* The script of a GameReview component: a reviewer of the main timeline in
\* the timelineState store, beginGameReview() up to its first await, and
\* the interval.
GameReview_create(ci, commands) ==
    LET begun == beginGameReview([reviewer |-> GameReviewer(ci.stores.timelineState.main),
                                  pass |-> NoPass,
                                  engine |-> commands])
    IN  [component |-> [reviewer |-> begun.rv.reviewer,
                        pass |-> begun.rv.pass,
                        interval |-> TRUE],
         engine |-> begun.rv.engine]

\* onDestroy of the component shown: clearInterval.
Destroyed(components) ==
    [k \in DOMAIN components |-> [components[k] EXCEPT !.interval = FALSE]]

\* A variant of the Import button that does not clear the annotations.
Upload_importKeepingAnnotations(ci, pgn) == ChessInterface_loadPGN(ci, pgn)

\* The Import button of Upload: loadPGN(textarea.value), then
\* clearAnnotations().
Upload_import(ci, pgn) ==
    ChessInterface_clearAnnotations(ChessInterface_loadPGN(ci, pgn).interface)

\* The fields of the interface after a handler.
InterfaceBecomes(ci) ==
    /\ position' = ci.timeline.position
    /\ main' = ci.timeline.main
    /\ hypothetical' = ci.timeline.hypothetical
    /\ hypotheticalForksFrom' = ci.timeline.hypotheticalForksFrom
    /\ annotations' = ci.annotations
    /\ matchMetadata' = ci.matchMetadata
    /\ stores' = ci.stores

AppInit ==
    /\ position = ChessInterface.timeline.position
    /\ main = ChessInterface.timeline.main
    /\ hypothetical = ChessInterface.timeline.hypothetical
    /\ hypotheticalForksFrom = ChessInterface.timeline.hypotheticalForksFrom
    /\ annotations = ChessInterface.annotations
    /\ matchMetadata = ChessInterface.matchMetadata
    /\ stores = ChessInterface.stores
    /\ reviewer = Null
    /\ pass = Null
    /\ engine = <<>>
    /\ modalManager = ModalManager
    /\ reviews = <<>>
    /\ call = [op |-> "App"]
    /\ ret = Undefined

\* The button Import Game.
AppOpenUpload ==
    /\ modalManager' = ModalManager_open(modalManager, ModalComponent("Upload"),
                                         AppArgs, FALSE)
    /\ call' = [op |-> "Import Game"]
    /\ ret' = Undefined
    /\ UNCHANGED <<timelineVars, interfaceVars, reviewVars, reviews>>

\* The button Review Game, disabled while the main timeline published is
\* empty: jumpToStart(), then open(GameReview); when that makes GameReview
\* the modal shown, a component is created.
AppReview ==
    LET jumped == ChessInterface_jumpToStart(Interface).interface
        created == GameReview_create(jumped, engine)
        opens == modalManager.modal = Null
    IN  /\ Len(stores.timelineState.main) > 0
        /\ opens => Len(reviews) < MaxReviews
        /\ InterfaceBecomes(jumped)
        /\ modalManager' = ModalManager_open(modalManager,
                                             ModalComponent("GameReview"),
                                             AppArgs, FALSE)
        /\ reviews' = IF opens THEN Append(reviews, created.component)
                      ELSE reviews
        /\ engine' = IF opens THEN created.engine ELSE engine
        /\ call' = [op |-> "Review Game"]
        /\ ret' = Undefined
        /\ UNCHANGED <<reviewer, pass>>

\* A click on the overlay behind the modal shown: close(); the component
\* shown is destroyed.
AppClickOverlay ==
    /\ modalManager.stores.modal # Null
    /\ modalManager' = ModalManager_close(modalManager)
    /\ reviews' = Destroyed(reviews)
    /\ call' = [op |-> "overlay"]
    /\ ret' = Undefined
    /\ UNCHANGED <<timelineVars, interfaceVars, reviewVars>>

\* The button Import of the Upload modal, disabled unless validatePGN
\* accepts the text: the import, then close().  The call keeps whether the
\* annotation store published when the button was clicked held annotations.
AppImport(pgn) ==
    /\ modalManager.stores.modal = ModalComponent("Upload")
    /\ Parses(pgn)
    /\ InterfaceBecomes(Upload_import(Interface, pgn).interface)
    /\ modalManager' = ModalManager_close(modalManager)
    /\ call' = [op |-> "Import", pgn |-> pgn,
                reviewed |-> \E i \in DOMAIN stores.annotations.annotations :
                                Truthy(stores.annotations.annotations[i])]
    /\ ret' = Undefined
    /\ UNCHANGED <<reviewVars, reviews>>

\* The run of the k-th component after one of its awaits was answered.
AppReviewed(k, rv) ==
    /\ reviews' = [reviews EXCEPT ![k].reviewer = rv.reviewer,
                                  ![k].pass = rv.pass]
    /\ engine' = rv.engine
    /\ UNCHANGED <<timelineVars, interfaceVars, reviewer, pass, modalManager>>

\* The engine answers the get_evaluation of the run of the k-th component
\* with the evaluation it has: that of the position started last.
AppGetEvaluation(k) ==
    /\ reviews[k].pass.at = "getEvaluation"
    /\ AppReviewed(k, getEvaluationAnswered(ReviewOf(k),
                                            FinalEval(EnginePosition(engine).fen)))
    /\ call' = [op |-> "get_evaluation", review |-> k,
                asked |-> reviews[k].reviewer.timeline[reviews[k].pass.i + 1].fen,
                evaluated |-> EnginePosition(engine).fen]
    /\ ret' = FinalEval(EnginePosition(engine).fen)

\* The fetch of the opening book of the run of the k-th component is
\* answered.
AppFetchOpeningBook(k) ==
    /\ reviews[k].pass.at = "fetch"
    /\ AppReviewed(k, openingBookAnswered(ReviewOf(k), AppOpeningBook))
    /\ call' = [op |-> "fetch", review |-> k]
    /\ ret' = AppOpeningBook

\* The interval of the k-th component fires when its reviewer has completed:
\* clearInterval, loadAnnotations(getAnnotations()), close(); the component
\* shown is destroyed.
AppInterval(k) ==
    /\ reviews[k].interval
    /\ isCompleted(reviews[k].reviewer)
    /\ InterfaceBecomes(ChessInterface_loadAnnotations(
                            Interface, getAnnotations(reviews[k].reviewer)).interface)
    /\ modalManager' = ModalManager_close(modalManager)
    /\ reviews' = Destroyed(reviews)
    /\ call' = [op |-> "interval", review |-> k]
    /\ ret' = Undefined
    /\ UNCHANGED reviewVars

AppNext ==
    \/ AppOpenUpload
    \/ AppReview
    \/ AppClickOverlay
    \/ \E pgn \in AppTexts : AppImport(pgn)
    \/ \E k \in DOMAIN reviews : AppGetEvaluation(k)
    \/ \E k \in DOMAIN reviews : AppFetchOpeningBook(k)
    \/ \E k \in DOMAIN reviews : AppInterval(k)

SpecApp == AppInit /\ [][AppNext]_vars

----------------------------------------------------------------------------
\* Properties of the timeline.

\* C1: after any sequence of timeline operations the cursor index is a valid
\* index of the timeline it is on (main when position.main, hypothetical
\* otherwise), so the current board state is defined.
C1_CursorInBounds ==
    /\ 0 <= position.index
    /\ position.index < (IF position.main THEN Len(main) ELSE Len(hypothetical))

\* C2: whenever main is non-empty and the cursor is not on main, hypothetical
\* has at least one element and hypotheticalForksFrom is a valid index of main.
C2_ForkValid ==
    (Len(main) > 0 /\ ~position.main) =>
        /\ Len(hypothetical) >= 1
        /\ 0 <= hypotheticalForksFrom
        /\ hypotheticalForksFrom < Len(main)

\* A move made at the last position of a main line of two positions forked a
\* hypothetical timeline there.
C2_Witness ==
    /\ call.op = "makeMove"
    /\ call.at = [main |-> TRUE, index |-> 1]
    /\ ~position.main
    /\ Len(main) = 2
    /\ hypotheticalForksFrom = 1
    /\ Len(hypothetical) = 1

\* C3: whenever main is empty the cursor is on the hypothetical timeline.
C3_EmptyMainOffMain == (Len(main) = 0) => ~position.main

\* previous() was called at the start of the hypothetical timeline with no
\* main line to go back to.
C3_Witness ==
    /\ call.op = "previous"
    /\ call.at = [main |-> FALSE, index |-> 0]
    /\ Len(main) = 0
    /\ position = [main |-> FALSE, index |-> 0]

\* C4: whenever the cursor is on main the hypothetical timeline is empty.
C4_OnMainHypotheticalEmpty == position.main => hypothetical = <<>>

\* previous() at the start of a hypothetical timeline went back to the fork
\* point on main.
C4_Witness ==
    /\ call.op = "previous"
    /\ call.at = [main |-> FALSE, index |-> 0]
    /\ position = [main |-> TRUE, index |-> 1]
    /\ hypothetical = <<>>

\* The inputs of makeMove.
MoveInputs == [fromIndex : Squares, toIndex : Squares, promotion : Promotions]

\* makeMove is called with the input m.
MakeMoveWith(m) == DoMakeMove(m.fromIndex, m.toIndex, m.promotion)

\* The rules capability's answer to the input m at the cursor: the move, or
\* Null when it rejects it.
MoveAtCursor(m) ==
    ChessMove(getBoardState(Timeline).fen, m.fromIndex, m.toIndex, m.promotion)

\* There is a board state at the cursor and the rules capability rejects m.
Rejected(m) == getBoardState(Timeline) # Undefined /\ MoveAtCursor(m) = Null

\* There is a board state at the cursor and the rules capability accepts m.
Legal(m) == getBoardState(Timeline) # Undefined /\ MoveAtCursor(m) # Null

\* The board state the legal move m leads to.
Produced(m) == BoardState(MoveAtCursor(m).after, MoveAtCursor(m))

\* makeMove returned a failure result carrying the cursor and changed no field.
RejectedOutcome ==
    /\ ret' = [valid |-> FALSE, newPosition |-> position]
    /\ UNCHANGED <<position, main, hypothetical, hypotheticalForksFrom>>

\* C5: makeMove with a move the rules capability rejects returns a failure
\* result carrying the unchanged cursor and changes none of main,
\* hypothetical, hypotheticalForksFrom and position, on either timeline:
\* every makeMove step has that outcome, or is the step of no rejected move.
C5_RejectedMoveChangesNothing ==
    [][call'.op = "makeMove" =>
          \/ RejectedOutcome
          \/ \A m \in MoveInputs : ~(Rejected(m) /\ MakeMoveWith(m))]_vars

\* A move was rejected at index 1 of the main timeline.
C5_Witness ==
    /\ call.op = "makeMove"
    /\ call.at = [main |-> TRUE, index |-> 1]
    /\ ret = [valid |-> FALSE, newPosition |-> [main |-> TRUE, index |-> 1]]
    /\ position = [main |-> TRUE, index |-> 1]

\* C6: a legal makeMove with the cursor at index k of a non-empty main sets
\* hypotheticalForksFrom to k, makes hypothetical the one position the move
\* produces, moves the cursor to index 0 of hypothetical and leaves main as
\* it was.
C6_ForkFromMain ==
    [][(call'.op = "makeMove" /\ position.main /\ Len(main) > 0) =>
          \A m \in MoveInputs : (Legal(m) /\ MakeMoveWith(m)) =>
              /\ hypotheticalForksFrom' = position.index
              /\ hypothetical' = <<Produced(m)>>
              /\ position' = [main |-> FALSE, index |-> 0]
              /\ main' = main
              /\ ret' = [valid |-> TRUE, newPosition |-> [main |-> FALSE, index |-> 0]]]_vars

\* A legal move was made at index 1 of the main timeline.
C6_Witness ==
    /\ call.op = "makeMove"
    /\ call.at = [main |-> TRUE, index |-> 1]
    /\ ret = [valid |-> TRUE, newPosition |-> [main |-> FALSE, index |-> 0]]
    /\ position = [main |-> FALSE, index |-> 0]
    /\ hypotheticalForksFrom = 1
    /\ Len(hypothetical) = 1

\* C7: a legal makeMove with the cursor at index j of hypothetical makes
\* hypothetical its first j+1 old elements followed by the position the move
\* produces and puts the cursor at index j+1; after any legal move the cursor
\* is on the last element of hypothetical.
C7_PushTruncates ==
    [][call'.op = "makeMove" =>
          \A m \in MoveInputs : (Legal(m) /\ MakeMoveWith(m)) =>
              /\ ~position.main =>
                    /\ hypothetical' =
                          Append(SubSeq(hypothetical, 1, position.index + 1), Produced(m))
                    /\ position' = [main |-> FALSE, index |-> position.index + 1]
              /\ ~position'.main
              /\ position'.index = Len(hypothetical') - 1]_vars

\* A legal move was made at index 0 of a hypothetical timeline of two
\* positions: the one after it was discarded.
C7_Witness ==
    /\ call.op = "makeMove"
    /\ call.at = [main |-> FALSE, index |-> 0]
    /\ call.length = 2
    /\ ret = [valid |-> TRUE, newPosition |-> [main |-> FALSE, index |-> 1]]
    /\ position = [main |-> FALSE, index |-> 1]
    /\ Len(hypothetical) = 2

\* C8: previous() with index > 0 only decrements the index; on hypothetical
\* at index 0 with a non-empty main it moves the cursor to main at
\* hypotheticalForksFrom and empties hypothetical; in every other state it
\* changes nothing.
C8_Previous ==
    [][call'.op = "previous" =>
          IF position.index > 0
          THEN /\ position' = [main |-> position.main, index |-> position.index - 1]
               /\ UNCHANGED <<main, hypothetical, hypotheticalForksFrom>>
          ELSE IF ~position.main /\ Len(main) > 0
          THEN /\ position' = [main |-> TRUE, index |-> hypotheticalForksFrom]
               /\ hypothetical' = <<>>
               /\ UNCHANGED <<main, hypotheticalForksFrom>>
          ELSE UNCHANGED <<position, main, hypothetical, hypotheticalForksFrom>>]_vars

\* previous() at the start of a hypothetical timeline forked at index 1 of
\* main went back to index 1 of main.
C8_Witness ==
    /\ call.op = "previous"
    /\ call.at = [main |-> FALSE, index |-> 0]
    /\ ret = [main |-> TRUE, index |-> 1]
    /\ position = [main |-> TRUE, index |-> 1]
    /\ hypotheticalForksFrom = 1
    /\ hypothetical = <<>>

\* C9: next() increments the index exactly when it is below the last index
\* of the timeline the cursor is on and is a no-op otherwise; it never
\* changes the timeline the cursor is on, main, hypothetical or
\* hypotheticalForksFrom.
C9_Next ==
    [][call'.op = "next" =>
          /\ position' = IF position.index < ActiveLength - 1
                         THEN [main |-> position.main, index |-> position.index + 1]
                         ELSE position
          /\ ret' = position'
          /\ UNCHANGED <<main, hypothetical, hypotheticalForksFrom>>]_vars

\* next() at the last index of main, after hypothetical was discarded, stayed
\* where it was.
C9_Witness ==
    /\ call.op = "next"
    /\ call.at = [main |-> TRUE, index |-> 1]
    /\ call.length = 2
    /\ position = [main |-> TRUE, index |-> 1]
    /\ hypothetical = <<>>

\* previous() applied n times.
RECURSIVE RepeatPrevious(_, _)
RepeatPrevious(tl, n) ==
    IF n = 0 THEN tl ELSE previous(RepeatPrevious(tl, n - 1)).tl

\* next() applied n times.
RECURSIVE RepeatNext(_, _)
RepeatNext(tl, n) ==
    IF n = 0 THEN tl ELSE next(RepeatNext(tl, n - 1)).tl

\* Repeating previous() from tl, the cursor changes at each of the first n
\* calls and stops changing at the next one.
PreviousStopsAfter(tl, n) ==
    /\ \A k \in 0 .. (n - 1) :
          RepeatPrevious(tl, k + 1).position # RepeatPrevious(tl, k).position
    /\ RepeatPrevious(tl, n + 1).position = RepeatPrevious(tl, n).position

\* Repeating next() from tl, the cursor changes at each of the first n calls
\* and stops changing at the next one.
NextStopsAfter(tl, n) ==
    /\ \A k \in 0 .. (n - 1) :
          RepeatNext(tl, k + 1).position # RepeatNext(tl, k).position
    /\ RepeatNext(tl, n + 1).position = RepeatNext(tl, n).position

\* C10: jumpToStart (jumpToEnd) ends, within as many calls of previous
\* (next) as the two timelines have positions, in the state reached by
\* repeating previous (next) until the cursor stops changing, and a second
\* call changes neither the cursor nor either timeline.
C10_JumpFixedPoint ==
    [][/\ call'.op = "jumpToStart" =>
             /\ \E n \in 0 .. (Len(main) + Len(hypothetical)) :
                   /\ PreviousStopsAfter(Timeline, n)
                   /\ Timeline' = RepeatPrevious(Timeline, n)
             /\ ret' = position'
             /\ jumpToStart(Timeline').tl = Timeline'
       /\ call'.op = "jumpToEnd" =>
             /\ \E n \in 0 .. (Len(main) + Len(hypothetical)) :
                   /\ NextStopsAfter(Timeline, n)
                   /\ Timeline' = RepeatNext(Timeline, n)
             /\ ret' = position'
             /\ jumpToEnd(Timeline').tl = Timeline']_vars

\* jumpToStart() at index 1 of a hypothetical timeline forked at index 1 of
\* main went through the fork point to the start of main.
C10_Witness ==
    /\ call.op = "jumpToStart"
    /\ call.at = [main |-> FALSE, index |-> 1]
    /\ call.length = 2
    /\ hypotheticalForksFrom = 1
    /\ position = [main |-> TRUE, index |-> 0]
    /\ hypothetical = <<>>

\* The last call was a legal makeMove, which leaves the cursor on the
\* hypothetical timeline.
AfterLegalMove ==
    /\ call.op = "makeMove"
    /\ ret # Threw
    /\ ret.valid

\* C11 as stated: after a legal move, repeating previous() until the cursor
\* stops changing leaves the cursor at index 0 of hypothetical when main is
\* empty, and at the fork point of main when there is a main timeline.
C11_StopsAtForkPoint ==
    AfterLegalMove =>
        \A n \in 0 .. (Len(main) + Len(hypothetical)) :
            PreviousStopsAfter(Timeline, n) =>
                RepeatPrevious(Timeline, n).position =
                    IF Len(main) = 0
                    THEN [main |-> FALSE, index |-> 0]
                    ELSE [main |-> TRUE, index |-> hypotheticalForksFrom]

\* C11 amended: after a legal move, repeating previous() until the cursor
\* stops changing leaves the cursor at index 0 of hypothetical when main is
\* empty; when there is a main timeline the cursor passes through the fork
\* point of main, hypothetical is discarded, and the cursor stops at index 0
\* of main.
C11_StopsAtStart ==
    AfterLegalMove =>
        \A n \in 0 .. (Len(main) + Len(hypothetical)) :
            PreviousStopsAfter(Timeline, n) =>
                IF Len(main) = 0
                THEN RepeatPrevious(Timeline, n).position =
                         [main |-> FALSE, index |-> 0]
                ELSE /\ RepeatPrevious(Timeline, n).position =
                            [main |-> TRUE, index |-> 0]
                     /\ RepeatPrevious(Timeline, n).hypothetical = <<>>
                     /\ \E k \in 0 .. n :
                           RepeatPrevious(Timeline, k).position =
                               [main |-> TRUE, index |-> hypotheticalForksFrom]

\* A legal move was made at index 1 of a main timeline of two positions, so
\* the fork point is not the start of main.
C11_Witness ==
    /\ AfterLegalMove
    /\ Len(main) = 2
    /\ hypotheticalForksFrom = 1
    /\ position = [main |-> FALSE, index |-> 0]

\* C12: loadPGN of a text that parses, from any state of the timeline, makes
\* main the starting position followed by one position per move of the text,
\* each reached from the one before it by that move, empties hypothetical,
\* resets the fork point and puts the cursor at index 0 of main.  (The text
\* of a step is one whose header is the metadata the step returned.)
C12_LoadReplacesEverything ==
    [][(call'.op = "loadPGN" /\ ret' # Threw) =>
          \A pgn \in PgnTexts :
              (ret'.header = pgn.header /\ Parses(pgn) /\ DoLoadPGN(pgn)) =>
                  /\ Len(main') = Len(pgn.moves) + 1
                  /\ main'[1] = fromFEN(INITIAL_BOARD_FEN)
                  /\ \A i \in 1 .. Len(pgn.moves) :
                        /\ main'[i + 1].move.to = pgn.moves[i]
                        /\ main'[i + 1] =
                               push(main'[i], FenSquare(main'[i].fen),
                                    pgn.moves[i], main'[i + 1].move.promotion)
                  /\ hypothetical' = <<>>
                  /\ hypotheticalForksFrom' = 0
                  /\ position' = [main |-> TRUE, index |-> 0]]_vars

\* loadPGN was called at index 1 of a hypothetical timeline forked at index 1
\* of a main timeline of two positions, and imported a game of no moves.
C12_Witness ==
    /\ call.op = "loadPGN"
    /\ call.at = [main |-> FALSE, index |-> 1]
    /\ ret # Threw
    /\ main = <<fromFEN(INITIAL_BOARD_FEN)>>
    /\ hypothetical = <<>>
    /\ hypotheticalForksFrom = 0
    /\ position = [main |-> TRUE, index |-> 0]

\* C13: loadPGN of the interface with a text that does not parse throws, and
\* leaves the four fields of the timeline, the interface's annotations and
\* metadata and the value of every store as they were.
C13_MalformedImportChangesNothing ==
    [][(call'.op = "loadPGN" /\ ~call'.parses) =>
          /\ ret' = Threw
          /\ UNCHANGED <<position, main, hypothetical, hypotheticalForksFrom>>
          /\ UNCHANGED <<annotations, matchMetadata, stores>>]_vars

\* A text that does not parse was given to loadPGN while the cursor was on a
\* hypothetical timeline forked from an imported game with metadata and
\* loaded annotations.
C13_Witness ==
    /\ call.op = "loadPGN"
    /\ ~call.parses
    /\ ret = Threw
    /\ ~position.main
    /\ Len(main) = 2
    /\ matchMetadata = [header |-> "game2"]
    /\ stores.matchMetadata = [header |-> "game2"]
    /\ annotations = SampleStore(2)
    /\ stores.timelineState.position = position

\* C14: main changes only in a step of loadPGN or loadFEN: a step of
\* makeMove (legal or rejected), previous, next, jumpToStart or jumpToEnd
\* leaves it as it was, and so does a write to an array returned by
\* getMainTimeline.
C14_MainImmutable ==
    [][/\ main' # main => call'.op \in {"loadPGN", "loadFEN"}
       /\ call'.op \in {"makeMove", "previous", "next", "jumpToStart",
                        "jumpToEnd", "getMainTimeline"} => main' = main]_vars

\* A caller emptied, by pop(), the array of one state that getMainTimeline
\* returned for a main timeline of one position, and main still has it.
C14_Witness ==
    /\ call.op = "getMainTimeline"
    /\ ret.array = <<>>
    /\ Len(main) = 1

----------------------------------------------------------------------------
\* Properties of the reviewer.

\* The phase of a reviewer.
Phase(r) ==
    IF isCompleted(r) THEN "Completed"
    ELSE IF isBusy(r) THEN "Running"
    ELSE "Idle"

\* C15: the phase of a reviewer changes only from Idle to Running and from
\* Running to Completed, and only one call of beginGameReview gets past the
\* re-entry checks; a call while Running is rejected with "Game review
\* already in progress.", a call when Completed with "Game review already
\* completed.", and either leaves the busy flag, the completed flag, the
\* progress, the annotation store, the run in progress and the engine (no
\* command is sent) as they were.
C15_RunsAtMostOnce ==
    [][/\ Phase(reviewer') # Phase(reviewer) =>
             <<Phase(reviewer), Phase(reviewer')>> \in
                 {<<"Idle", "Running">>, <<"Running", "Completed">>}
       /\ call'.op = "beginGameReview" =>
             /\ Phase(reviewer) = "Running" =>
                   /\ ret' = Error("Game review already in progress.")
                   /\ UNCHANGED <<reviewer, pass, engine>>
             /\ Phase(reviewer) = "Completed" =>
                   /\ ret' = Error("Game review already completed.")
                   /\ UNCHANGED <<reviewer, pass, engine>>
             /\ pass.at # "none" => UNCHANGED <<reviewer, pass, engine>>]_vars

\* beginGameReview was called on a reviewer that had completed the review
\* of a game of two moves, and was rejected.
C15_Witness ==
    /\ call.op = "beginGameReview"
    /\ ret = Error("Game review already completed.")
    /\ Phase(reviewer) = "Completed"
    /\ pass.at = "returned"
    /\ Len(reviewer.timeline) = 3

\* C16: getAnnotations returns null whenever the reviewer is not completed
\* (before beginGameReview, during the run at any progress, after a run that
\* ended with an error), and returns the annotation store, which is not
\* null, whenever isCompleted() is true.
C16_AnnotationsWhenCompleted ==
    /\ ~isCompleted(reviewer) => getAnnotations(reviewer) = Null
    /\ isCompleted(reviewer) =>
          /\ getAnnotations(reviewer) = reviewer.timelineAnnotations
          /\ getAnnotations(reviewer) # Null

\* Every position of a game of two moves has been evaluated, the progress is
\* 1, the opening book has not arrived, and getAnnotations returns null.
C16_Witness ==
    /\ pass.at = "fetch"
    /\ Len(reviewer.timeline) = 3
    /\ getProgress(reviewer).num = getProgress(reviewer).den
    /\ ~isCompleted(reviewer)
    /\ getAnnotations(reviewer) = Null

\* C17 as stated: once the engine has failed to answer for a position, the
\* reviewer never becomes completed, no annotation is written and
\* getAnnotations returns null.
C17_EngineFailureAborts ==
    pass.engineFailed =>
        /\ ~isCompleted(reviewer)
        /\ \A i \in 1 .. Len(reviewer.timelineAnnotations.annotations) :
              reviewer.timelineAnnotations.annotations[i] = Null
        /\ getAnnotations(reviewer) = Null

\* The start commands sent to the engine, in order.
IsStart(c) == c.command = "start_evaluation"
Starts == SelectSeq(engine, IsStart)

\* C18: in a run of beginGameReview the evaluations are started in the
\* order of the indices 0, 1, ..., each for the position at its index and
\* each once; the evaluation of an index is started only when every index
\* before it has its result, and every start is followed by a stop before
\* the next start; when the run is past _getEvaluations every index has been
\* started; and an annotation is written only when every position has its
\* evaluation.
C18_EvaluatedInOrder ==
    /\ \A k \in 1 .. Len(Starts) :
          /\ Starts[k].index = k - 1
          /\ k <= Len(reviewer.timeline)
          /\ Starts[k].fen = reviewer.timeline[k].fen
    /\ Len(Starts) <= Len(pass.evaluations) + 1
    /\ Len(Starts) >= Len(pass.evaluations)
    /\ \A k \in 1 .. (Len(engine) - 1) :
          IsStart(engine[k]) => ~IsStart(engine[k + 1])
    /\ pass.at \in {"fetch", "returned"} =>
          /\ Len(Starts) = Len(reviewer.timeline)
          /\ Len(pass.evaluations) = Len(reviewer.timeline)
    /\ (\E i \in 1 .. Len(reviewer.timelineAnnotations.annotations) :
           reviewer.timelineAnnotations.annotations[i] # Null) =>
          Len(pass.evaluations) = Len(reviewer.timeline)

\* The review of a game of two moves returned: three evaluations were
\* started and three results are there.
C18_Witness ==
    /\ pass.at = "returned"
    /\ Len(reviewer.timeline) = 3
    /\ Len(Starts) = 3
    /\ Len(pass.evaluations) = 3

\* Fractions compared.
RatioLeq(p, q) == p.num * q.den <= q.num * p.den
RatioEqual(p, q) == p.num * q.den = q.num * p.den

\* What C19 says of the progress in one state.
ProgressOf(r, p) ==
    /\ getProgress(r).den > 0
    /\ RatioLeq(Ratio(0, 1), getProgress(r))
    /\ RatioLeq(getProgress(r), Ratio(1, 1))
    /\ RatioEqual(getProgress(r), Ratio(Len(p.evaluations), Len(r.timeline)))
    /\ isCompleted(r) => RatioEqual(getProgress(r), Ratio(1, 1))

\* C19: the progress is a number from 0 to 1; it is 0 before any evaluation
\* and (i + 1) / N once the evaluation of index i, of N positions, has
\* succeeded; it is 1 whenever the reviewer is completed; and no step
\* decreases it.
C19_Progress ==
    [][/\ ProgressOf(reviewer, pass)
       /\ ProgressOf(reviewer', pass')
       /\ RatioLeq(getProgress(reviewer), getProgress(reviewer'))]_vars

\* The last of three positions was evaluated: the progress is 3/3 while the
\* reviewer is busy and not completed.
C19_Witness ==
    /\ call.op = "get_evaluation"
    /\ getProgress(reviewer) = Ratio(3, 3)
    /\ isBusy(reviewer)
    /\ ~isCompleted(reviewer)

\* C20: the annotation store has one slot per position of the game; the
\* slot of index 0 is always empty; a slot holds nothing or one annotation;
\* and when the reviewer is completed every slot from index 1 on holds an
\* annotation.
C20_AnnotationSlots ==
    LET slots == reviewer.timelineAnnotations.annotations
    IN  /\ Len(slots) = Len(reviewer.timeline)
        /\ slots[1] = Null
        /\ \A i \in 1 .. Len(slots) :
              slots[i] = Null \/ "feedback" \in DOMAIN slots[i]
        /\ isCompleted(reviewer) =>
              \A i \in 2 .. Len(slots) :
                  /\ slots[i] # Null
                  /\ slots[i] = getAnnotationAt(reviewer.timelineAnnotations, i - 1)

\* The review of a game of two moves is completed: the slots of index 1 and
\* 2 hold an annotation and the slot of index 0 is empty.
C20_Witness ==
    /\ isCompleted(reviewer)
    /\ Len(reviewer.timelineAnnotations.annotations) = 3
    /\ reviewer.timelineAnnotations.annotations[1] = Null
    /\ reviewer.timelineAnnotations.annotations[2] # Null
    /\ reviewer.timelineAnnotations.annotations[3] # Null

----------------------------------------------------------------------------
\* Properties of the labels.

\* The run of beginGameReview has ended: it returned or threw.
Ended == pass.at \in {"returned", "threw"}

\* The moves of the reviewed game: index i is the move played into position i.
MoveIndexes == 1 .. (Len(reviewer.timeline) - 1)

\* The annotation written for index i, the move played into position i, the
\* evaluation records before and after it and their top lines.
AnnotationAt(i) == getAnnotationAt(reviewer.timelineAnnotations, i)
MovePlayed(i) == reviewer.timeline[i + 1].move
PreMove(i) == pass.evaluations[i].eval
PostMove(i) == pass.evaluations[i + 1].eval
DeltaAt(i) == pass.evaluations[i + 1].deltaScore

\* The post-move position of index i is in the opening book that was loaded.
InBook(i) == MovePlayed(i).after \in DOMAIN ret.openingBook.names

\* The move played into index i is, by origin and destination, the first
\* move of the pre-move top line as the engine wrote it.
MatchesTopLineText(i) ==
    <<MovePlayed(i).from, MovePlayed(i).to>> = getBestMove(PreMove(i))

SameMoveAsTopLine(i) ==
    UciMove(MovePlayed(i).from, MovePlayed(i).to, MovePlayed(i).promotion)
        = getBestMove(PreMove(i))

\* C22: after a run of beginGameReview, every annotated move that is not in
\* the book and is the same move as the first move of the engine's top line
\* for the pre-move position is labelled Best, promotions included.
C22_BestWhenTopLine ==
    Ended =>
        \A i \in MoveIndexes :
            (AnnotationAt(i) # Null /\ ~InBook(i) /\ SameMoveAsTopLine(i)) =>
                AnnotationAt(i).feedback = "best"

\* The side that moved into index i is black.
MoverIsBlack(i) == BlackToMove(reviewer.timeline[i].fen)

\* The top line of the evaluation shows a forced mate given by black (a
\* negative mate count) or by white (a positive one).
ShowsMateBy(sfEval, black) ==
    /\ FirstContinuation(sfEval) # Undefined
    /\ "Mate" \in DOMAIN FirstContinuation(sfEval).score
    /\ IF black
       THEN FirstContinuation(sfEval).score.Mate < 0
       ELSE FirstContinuation(sfEval).score.Mate > 0

\* C23: after a run of beginGameReview, an annotated move that is neither
\* Book nor Best is labelled Miss exactly when the pre-move top line showed
\* a forced mate for the side that moved and the post-move top line shows
\* no mate for that side.
C23_MissedOwnMate ==
    Ended =>
        \A i \in MoveIndexes :
            (AnnotationAt(i) # Null /\ AnnotationAt(i).feedback \notin {"book", "best"}) =>
                (AnnotationAt(i).feedback = "miss" <=>
                    /\ ShowsMateBy(PreMove(i), MoverIsBlack(i))
                    /\ ~ShowsMateBy(PostMove(i), MoverIsBlack(i)))

\* The top line of the evaluation carries a mate score.
HasMateScore(sfEval) ==
    /\ FirstContinuation(sfEval) # Undefined
    /\ "Mate" \in DOMAIN FirstContinuation(sfEval).score

\* The annotation loop of beginGameReview came to index i: every position
\* was evaluated and every index before i was annotated.
LoopReached(i) ==
    /\ Len(pass.evaluations) = Len(reviewer.timeline)
    /\ \A j \in 1 .. (i - 1) : AnnotationAt(j) # Null

\* The move played into index i matches none of the rules for Book, Best
\* and Miss: there is a pre-move top line, the post-move position is not in
\* the book, the move is not the top line's first move as the engine wrote
\* it, and the pre-move top line is no mate or the post-move one is.
NoneOfBookBestMiss(i) ==
    /\ FirstContinuation(PreMove(i)) # Undefined
    /\ ~InBook(i)
    /\ ~MatchesTopLineText(i)
    /\ (HasMateScore(PreMove(i)) => HasMateScore(PostMove(i)))

\* The label the two thresholds give to a delta.
LabelByDelta(deltaScore) ==
    IF deltaScore >= -GOOD_CP_LOSS_THRESHOLD THEN "good"
    ELSE IF deltaScore >= -BLUNDER_CP_LOSS_THRESHOLD THEN "dubious"
    ELSE "blunder"

\* C25: after a run of beginGameReview, every move the annotation loop came
\* to that matches none of Book, Best and Miss has an annotation, and its
\* label is Good for a delta of at least -50, Dubious for a delta from -200
\* to below -50, and Blunder for a delta below -200.
C25_DeltaDecides ==
    Ended =>
        \A i \in MoveIndexes :
            (LoopReached(i) /\ NoneOfBookBestMiss(i)) =>
                /\ AnnotationAt(i) # Null
                /\ AnnotationAt(i).feedback = LabelByDelta(DeltaAt(i))

\* The absolute score of an evaluation record of the run.
AbsoluteScore(sfEval) == evalAsAbsoluteScore(sfEval).value

\* An answer at the depth asked for whose top line has the score cp.
PlainEval(fen, cp) ==
    StockfishEval(ReviewDepth,
                  <<Continuation(<<EngineMove(fen)>>, CentipawnAdvantage(cp))>>,
                  Null)

\* The delta scores _getEvaluations computes for the timeline when the
\* positions' top lines have the scores cps.
DeltasOf(timeline, cps) ==
    LET rv == [reviewer |-> GameReviewer(timeline), pass |-> NoPass,
               engine |-> <<>>]
        answers == [k \in 1 .. Len(timeline) |->
                       PlainEval(timeline[k].fen, cps[k])]
        evaluations == answered(beginGameReview(rv).rv, answers).pass.evaluations
    IN  [k \in 1 .. Len(evaluations) |-> evaluations[k].deltaScore]

\* A game of two moves, one by white and one by black.
TwoMoveGame == CHOOSE timeline \in ReviewTimelines : Len(timeline) = 3

\* C26: the delta score of every index i >= 1 of a run is the absolute
\* score at i minus the absolute score at i - 1, negated exactly when black
\* moved into position i; and absolute scores 0, +20, +15 for a game of two
\* moves give the deltas +20 and +5.
C26_DeltaForMover ==
    /\ \A i \in 1 .. (Len(pass.evaluations) - 1) :
          DeltaAt(i) = IF MoverIsBlack(i)
                       THEN -(AbsoluteScore(PostMove(i)) - AbsoluteScore(PreMove(i)))
                       ELSE AbsoluteScore(PostMove(i)) - AbsoluteScore(PreMove(i))
    /\ DeltasOf(TwoMoveGame, <<0, 20, 15>>) = <<0, 20, 5>>

\* Black moved into position 2 and the absolute score fell from 0 to -100:
\* the delta is +100.
C26_Witness ==
    /\ Len(pass.evaluations) = 3
    /\ MoverIsBlack(2)
    /\ AbsoluteScore(PreMove(2)) = 0
    /\ AbsoluteScore(PostMove(2)) = -100
    /\ DeltaAt(2) = 100

\* The position of the evaluation is terminal; the evaluation has a
\* candidate line.
IsTerminal(sfEval) == sfEval.outcome # Null
HasLine(sfEval) == Len(sfEval.continuations) > 0

\* The score the outcome of a finished game stands for.
OutcomeScore(outcome) ==
    CASE outcome = Outcome("Draw") -> 0
      [] outcome = Outcome("WhiteWin") -> 1000
      [] outcome = Outcome("BlackWin") -> -1000

\* The score of a top line: its centipawn advantage, or 1000 with the sign
\* of the side giving mate (white mates with a positive count).
LineScore(score) ==
    IF "CentipawnAdvantage" \in DOMAIN score THEN score.CentipawnAdvantage
    ELSE IF score.Mate > 0 THEN 1000 ELSE -1000

\* C27: for every answer of the engine in a run that is terminal or has a
\* candidate line, evalAsAbsoluteScore is defined and is the outcome score
\* when the position is terminal, whatever its lines, and otherwise the
\* score of the top line; the run carries that score of the last position
\* it evaluated.
C27_AbsoluteScore ==
    Ended =>
        /\ \A k \in 1 .. Len(ret.answers) :
              LET sfEval == ret.answers[k]
              IN  (IsTerminal(sfEval) \/ HasLine(sfEval)) =>
                      evalAsAbsoluteScore(sfEval) =
                          [ok |-> TRUE,
                           value |-> IF IsTerminal(sfEval)
                                     THEN OutcomeScore(sfEval.outcome)
                                     ELSE LineScore(sfEval.continuations[1].score)]
        /\ \A k \in 1 .. Len(pass.evaluations) :
              /\ pass.evaluations[k].eval = ret.answers[k]
              /\ k = Len(pass.evaluations) =>
                    pass.lastScore = AbsoluteScore(ret.answers[k])

\* The last position evaluated was a game won by black whose evaluation
\* still had a line with a mate by white: the score carried is -1000.
C27_Witness ==
    /\ Ended
    /\ Len(pass.evaluations) = 2
    /\ PostMove(1).outcome = Outcome("BlackWin")
    /\ HasLine(PostMove(1))
    /\ FirstContinuation(PostMove(1)).score = Mate(1)
    /\ pass.lastScore = -1000
    /\ HasMateScore(PreMove(1))
    /\ FirstContinuation(PreMove(1)).score.Mate < 0

----------------------------------------------------------------------------
\* Properties of the accuracies.

\* The slots of the store that hold an annotation: the annotated moves.
AnnotatedMoves(store) ==
    {i \in DOMAIN store.annotations : Truthy(store.annotations[i])}

\* The annotated moves of the store with one of the labels.
MovesLabelled(store, labels) ==
    {i \in AnnotatedMoves(store) : store.annotations[i].feedback \in labels}

\* C28: the accuracy of the store of a completed review with at least one
\* move is the number of moves labelled Book, Brilliant, Best or Good
\* divided by the number of annotated moves; it is 1 when every move is
\* labelled Best.
C28_Accuracy ==
    (reviewer.completed /\ AnnotatedMoves(getAnnotations(reviewer)) # {}) =>
        LET store == getAnnotations(reviewer)
            positive == MovesLabelled(store, {"book", "brilliant", "best", "good"})
        IN  /\ computeAccuracy(store).den # 0
            /\ RatioEqual(computeAccuracy(store),
                          Ratio(Cardinality(positive),
                                Cardinality(AnnotatedMoves(store))))
            /\ MovesLabelled(store, {"best"}) = AnnotatedMoves(store) =>
                  RatioEqual(computeAccuracy(store), Ratio(1, 1))

\* The weight of a label in quarters: 1 for Best and Brilliant, 0.5 for
\* Good, 0.25 for Dubious, 0 for Blunder, Miss and Book.
LabelWeight(feedback) ==
    CASE feedback \in {"best", "brilliant"} -> 4
      [] feedback = "good" -> 2
      [] feedback = "dubious" -> 1
      [] feedback \in {"blunder", "miss", "book"} -> 0

\* The sum of the weights of the annotated moves in the set, in quarters.
RECURSIVE SumOfWeights(_, _)
SumOfWeights(store, moves) ==
    IF moves = {} THEN 0
    ELSE LET i == CHOOSE j \in moves : TRUE
         IN  LabelWeight(store.annotations[i].feedback)
                 + SumOfWeights(store, moves \ {i})

\* C29: the weighted accuracy of the store of a completed review with at
\* least one move is the sum of the weights of the labels divided by the
\* number of annotated moves.
C29_WeightedAccuracy ==
    (reviewer.completed /\ AnnotatedMoves(getAnnotations(reviewer)) # {}) =>
        LET store == getAnnotations(reviewer)
        IN  /\ computeWeightedAccuracy(store).den # 0
            /\ RatioEqual(computeWeightedAccuracy(store),
                          Ratio(SumOfWeights(store, AnnotatedMoves(store)),
                                4 * Cardinality(AnnotatedMoves(store))))

\* The fraction is a number (0 / 0 is not) between 0 and 1.
IsNumber(ratio) == ratio.den # 0
WithinUnit(ratio) ==
    /\ IsNumber(ratio)
    /\ RatioLeq(Ratio(0, 1), ratio)
    /\ RatioLeq(ratio, Ratio(1, 1))

\* C30: the accuracy and the weighted accuracy of every annotation store the
\* interface publishes, the placeholder of a state without review included,
\* are numbers between 0 and 1.
C30_AccuracyBounds ==
    /\ WithinUnit(computeAccuracy(stores.annotations))
    /\ WithinUnit(computeWeightedAccuracy(stores.annotations))

\* C30, amended: the accuracy and the weighted accuracy of every published
\* store with at least one slot are numbers between 0 and 1; those of the
\* store without slots, the placeholder published while there is no main
\* line, are 0 / 0.
C30_AccuracyBoundsNonEmpty ==
    LET store == stores.annotations
    IN  IF Len(store.annotations) > 0
        THEN /\ WithinUnit(computeAccuracy(store))
             /\ WithinUnit(computeWeightedAccuracy(store))
        ELSE /\ computeAccuracy(store) = Ratio(0, 0)
             /\ computeWeightedAccuracy(store) = Ratio(0, 0)

\* The store of a review of a one-move game is published: its accuracy is
\* 1/2 and its weighted accuracy 1/4.
C30_Witness ==
    /\ call.op = "loadAnnotations"
    /\ stores.annotations = SampleStore(2)
    /\ computeAccuracy(stores.annotations) = Ratio(1, 2)
    /\ computeWeightedAccuracy(stores.annotations) = Ratio(2, 8)

----------------------------------------------------------------------------
\* Properties of a run of the review.

\* The run of beginGameReview is suspended at one of its awaits.
InProgress == pass.at \in {"getEvaluation", "fetch"}

\* C35 as stated: isBusy() is true exactly while a run of beginGameReview is
\* in progress (false before it, true from its start to its end, false once
\* it has returned or thrown), and isBusy() and isCompleted() are never both
\* true.
C35_BusyWhileRunning ==
    /\ isBusy(reviewer) <=> InProgress
    /\ ~(isBusy(reviewer) /\ isCompleted(reviewer))

\* C32 as stated: when the fetch of the opening book has failed, the
\* reviewer is completed, every index from 1 on holds an annotation and none
\* of them has the label Book.
C32_BookFailureDegrades ==
    (call.op = "fetch" /\ IsRejection(ret)) =>
        /\ isCompleted(reviewer)
        /\ \A i \in 2 .. Len(reviewer.timeline) :
              /\ reviewer.timelineAnnotations.annotations[i] # Null
              /\ reviewer.timelineAnnotations.annotations[i].feedback # "book"

\* The labels of the decision list of beginGameReview.
ReviewLabels == {"book", "best", "miss", "good", "dubious", "blunder"}

SaysAllowsMate(i) ==
    AnnotationAt(i).description.text = "This move allows a mate in"

\* C37 as stated: after a run of beginGameReview, an annotated move after
\* which the game is not over and the top line is a forced mate by the side
\* that moved has no negative delta and is labelled neither Dubious nor
\* Blunder, whatever the pre-move score was; and the description "allows a
\* mate" is given to such a move only when the top line is a mate by the
\* other side.
C37_MateForMover ==
    Ended =>
        \A i \in MoveIndexes :
            (AnnotationAt(i) # Null /\ ~IsTerminal(PostMove(i))) =>
                /\ ShowsMateBy(PostMove(i), MoverIsBlack(i)) =>
                      /\ DeltaAt(i) >= 0
                      /\ AnnotationAt(i).feedback \notin {"dubious", "blunder"}
                /\ SaysAllowsMate(i) =>
                      ShowsMateBy(PostMove(i), ~MoverIsBlack(i))

\* C34 as stated, for one answer: an error of the engine is not retried, so
\* the run that was answered with a rejection of get_evaluation has ended
\* with an error and is not waiting for the engine again.
C34_EngineErrorEndsRun ==
    (call.op = "get_evaluation" /\ IsRejection(ret)) =>
        /\ pass.at = "threw"
        /\ ~InProgress

----------------------------------------------------------------------------
\* Properties of the snapshots and of the stores.

\* C40 as stated: the arrays getMainTimeline and getHypotheticalTimeline
\* return equal _main and _hypothetical element by element, the same fen and
\* the same move, and the move of an initial position is null in the
\* snapshot as it is in the original.
C40_SnapshotsEqual ==
    LET mainSnapshot == getMainTimeline(Timeline).array
        hypotheticalSnapshot == getHypotheticalTimeline(Timeline).array
    IN  /\ Len(mainSnapshot) = Len(main)
        /\ Len(hypotheticalSnapshot) = Len(hypothetical)
        /\ \A i \in DOMAIN main :
              /\ mainSnapshot[i].fen = main[i].fen
              /\ mainSnapshot[i].move = main[i].move
              /\ main[i].move = Null => mainSnapshot[i].move = Null
        /\ \A i \in DOMAIN hypothetical :
              /\ hypotheticalSnapshot[i].fen = hypothetical[i].fen
              /\ hypotheticalSnapshot[i].move = hypothetical[i].move
              /\ hypothetical[i].move = Null => hypotheticalSnapshot[i].move = Null

----------------------------------------------------------------------------
\* Properties of the modal manager.

\* C39: open without force while a modal is open changes nothing, neither
\* the current modal nor its args nor the stores; open with force, or with
\* no modal open, makes the component and the args given current; close
\* leaves no modal open; and after every operation the modal store holds the
\* manager's current modal.
C39_ModalManager ==
    [][/\ (call'.op = "open" /\ modalManager.modal # Null /\ ~call'.force) =>
              UNCHANGED modalManager
       /\ (call'.op = "open" /\ (modalManager.modal = Null \/ call'.force)) =>
              /\ modalManager'.modal = call'.component
              /\ modalManager'.args = call'.args
              /\ modalManager'.stores.args = call'.args
       /\ call'.op = "close" => modalManager'.modal = Null
       /\ modalManager'.stores.modal = modalManager'.modal]_vars

\* open was called without force for another component than the one that
\* is open, and with other args.
C39_Witness ==
    /\ call.op = "open"
    /\ ~call.force
    /\ modalManager.modal # Null
    /\ modalManager.modal # call.component
    /\ modalManager.args # call.args
    /\ modalManager.stores.modal = modalManager.modal

----------------------------------------------------------------------------
\* Properties of the application.

\* The components whose reviewer is busy.
BusyReviews == {k \in DOMAIN reviews : isBusy(reviews[k].reviewer)}

\* C31 as stated: whatever the user does (opens the review, closes it by a
\* click on the overlay while the run is in progress, opens it again), at
\* most one reviewer is busy at any time, and a get_evaluation of a run is
\* answered with the evaluation of the position that run asked for, never
\* with that of a position another run started.
C31_OneReviewAtATime ==
    /\ Cardinality(BusyReviews) <= 1
    /\ call.op = "get_evaluation" => call.evaluated = call.asked

\* The annotation store published holds an annotation.
PublishedAnnotated(published) == AnnotatedMoves(published.annotations) # {}

====
